---------------------------- MODULE Spec2Model ----------------------------
(***************************************************************************)
(* A model of the RAG chatbot's chunking and vector retrieval code:        *)
(*   backend/document_processor.py  DocumentProcessor._create_chunks       *)
(*   backend/vector_store.py        VectorStore (FAISS, in memory + disk)  *)
(*   backend/vector_store_supabase.py VectorStoreSupabase (REST tables)    *)
(*   backend/main.py, app.py        the upload handlers                    *)
(* Texts are sequences of one-character strings; Python offsets are        *)
(* 0-based and kept 0-based here (Slice and RFind do the conversion).      *)
(***************************************************************************)
EXTENDS Integers, Sequences, FiniteSets, TLC

(***************************************************************************)
(* Bounds of the model.                                                    *)
(***************************************************************************)
\* longest short text given to _create_chunks
MaxLen == 4
\* largest chunk_size tried on short texts
MaxChunkSize == 3
\* largest chunk_overlap tried on short texts (may reach or pass chunk_size)
MaxOverlap == 3
\* longest tail that follows the sentence of a long text
MaxTail == 2
\* chunk_size and chunk_overlap of the processor that feeds the stores
UploadChunkSize == 2
UploadOverlap == 1
\* add_documents calls made on one store
MaxAdds == 2
\* entries a store may hold when one more document is added
MaxStored == 2
\* largest top_k searched besides the handlers' own
MaxTopK == 2
\* most files in one upload
MaxBatch == 2
\* the inserts of chunk rows one add_documents may see fail: the 1st..this one
MaxFailBatch == 2
\* the largest dim given to the hash embedding functions
MaxDim == 9
\* the calls of the hash embedding functions one behaviour makes
MaxCalls == 2
\* chat calls made in a run
MaxChats == 2
\* the longest pattern of row texts, and the rows of a short table
MaxPattern == 1
MaxRows == 4
\* the dim of the stored hash embeddings (the functions' default is 384)
EmbeddingDim == 4

(***************************************************************************)
(* Program constants.                                                      *)
(***************************************************************************)
\* document_processor.py:157  "boundary < start + 100"
MinBoundaryOffset == 100
\* document_processor.py:14  self.chunk_size
DefaultChunkSize == 800
\* document_processor.py:43  max_doc_size
MaxDocSize == 50000
\* vector_store_supabase.py:136  the longest chunk text stored whole
MaxChunkText == 1000
\* vector_store_supabase.py:144  chunk texts per call of generate_embeddings
batch_size == 10
\* vector_store_supabase.py:170  chunk rows per insert
BATCH_SIZE == 50
\* vector_store_supabase.py:98  rows per delete of clear
ClearBatchSize == 100
\* vector_store_supabase.py:215  the most chunk rows a search fetches
MAX_CHUNKS == 1000
\* vector_store_supabase.py:247  chunk rows scored between two prunings
ScoreBatchSize == 50

Min(a, b) == IF a < b THEN a ELSE b
Max(a, b) == IF a > b THEN a ELSE b

\* the characters texts are made of: a letter, the sentence end, a blank and a
\* line break (whitespace that is not ' ')
Alphabet == {"a", ".", " ", "\n"}
Whitespace == {" ", "\n"}

Rep(ch, n) == [i \in 1..n |-> ch]

(***************************************************************************)
(* Python string primitives used by _create_chunks.                        *)
(***************************************************************************)
\* a slice bound as Python reads it: a negative bound counts from the end, and
\* the result is clipped to [0, n]
SliceBound(i, n) == IF i < 0 THEN Max(i + n, 0) ELSE Min(i, n)

\* text[start:end]
Slice(text, start, end) ==
    SubSeq(text, SliceBound(start, Len(text)) + 1, SliceBound(end, Len(text)))

\* text.rfind(ch, start, end): the highest 0-based index in [start, end) holding
\* ch, or -1
RFind(text, ch, start, end) ==
    LET hits == {i \in SliceBound(start, Len(text))..(SliceBound(end, Len(text)) - 1) :
                    text[i + 1] = ch}
    IN  IF hits = {} THEN -1 ELSE CHOOSE i \in hits : \A j \in hits : j <= i

\* number of leading whitespace characters of s
LeadWs(s) ==
    LET nonws == {i \in 1..Len(s) : s[i] \notin Whitespace}
    IN  IF nonws = {} THEN Len(s)
        ELSE (CHOOSE i \in nonws : \A j \in nonws : i <= j) - 1

\* s.strip()
Strip(s) ==
    LET nonws == {i \in 1..Len(s) : s[i] \notin Whitespace}
    IN  IF nonws = {} THEN << >>
        ELSE SubSeq(s, CHOOSE i \in nonws : \A j \in nonws : i <= j,
                       CHOOSE i \in nonws : \A j \in nonws : j <= i)

(***************************************************************************)
(* DocumentProcessor._create_chunks, one loop iteration at a time.         *)
(***************************************************************************)
\* lines 156-158: the sentence boundary, or the last ' ' when there is no '.'
\* or it lies less than 100 characters into the window
FindBoundary(text, start, end) ==
    LET dot == RFind(text, ".", start, end)
    IN  IF dot = -1 \/ dot < start + MinBoundaryOffset
        THEN RFind(text, " ", start, end)
        ELSE dot

\* lines 152-160: the end of the window that starts at start
WindowEnd(text, start, size) ==
    LET end == start + size
    IN  IF end < Len(text)
        THEN LET boundary == FindBoundary(text, start, end)
             IN  IF boundary # -1 /\ boundary > start THEN boundary + 1 ELSE end
        ELSE end

\* lines 166-174: the chunk dict
MakeChunk(content, fname, idx, start, end) ==
    [content  |-> content,
     metadata |-> [filename |-> fname, chunk_index |-> idx,
                   start_pos |-> start, end_pos |-> end]]

\* lines 163-175: the chunk list after the window [start, end)
EmitChunk(cs, text, fname, idx, start, end) ==
    LET chunk_text == Strip(Slice(text, start, end))
    IN  IF chunk_text # << >>
        THEN Append(cs, MakeChunk(chunk_text, fname, idx, start, end))
        ELSE cs

\* chunk_index incremented for every window, emitted or not
NextIndexAlways(text, idx, start, end) == idx + 1

\* lines 165, 175: chunk_index after the window [start, end)
NextIndex(text, idx, start, end) ==
    IF Strip(Slice(text, start, end)) # << >> THEN idx + 1 ELSE idx

\* a loop that advances by end - overlap alone
NextStartNoProgress(start, end, overlap) == end - overlap

\* a loop that moves the window by one character whatever its end
NextStartByOne(start, end, overlap) == start + 1

\* a loop that starts the next window one character past the overlap region
NextStartSkips(start, end, overlap) == Max(start + 1, end - overlap + 1)

\* line 181
NextStart(start, end, overlap) == Max(start + 1, end - overlap)

\* lines 150-185 run to the end: the chunk list of the loop entered at start
RECURSIVE ChunkLoop(_, _, _, _, _, _, _)
ChunkLoop(text, fname, size, overlap, start, idx, cs) ==
    IF start < Len(text)
    THEN LET e == WindowEnd(text, start, size)
             cs2 == EmitChunk(cs, text, fname, idx, start, e)
         IN  IF e >= Len(text) THEN cs2
             ELSE ChunkLoop(text, fname, size, overlap,
                            NextStart(start, e, overlap),
                            NextIndex(text, idx, start, e), cs2)
    ELSE cs

\* lines 141-188: _create_chunks(text, filename) of a processor whose
\* chunk_size and chunk_overlap are size and overlap
CreateChunks(text, fname, size, overlap) ==
    IF Strip(text) = << >> THEN << >>
    ELSE ChunkLoop(text, fname, size, overlap, 0, 0, << >>)

(***************************************************************************)
(* DocumentProcessor.process_document.  An uploaded file is its name, the  *)
(* text its bytes hold (decoded or extracted) and whether PyPDF2 or        *)
(* python-docx can read the bytes.                                         *)
(***************************************************************************)
\* str.lower() on the characters file names are made of
Lower(c) ==
    CASE c = "B" -> "b"
      [] c = "T" -> "t"
      [] c = "X" -> "x"
      [] OTHER -> c

LowerAll(s) == [i \in 1..Len(s) |-> Lower(s[i])]

\* s.endswith(suf)
EndsWith(s, suf) ==
    Len(s) >= Len(suf) /\ SubSeq(s, Len(s) - Len(suf) + 1, Len(s)) = suf

ExtPdf == <<".", "p", "d", "f">>
ExtDocx == <<".", "d", "o", "c", "x">>
ExtTxt == <<".", "t", "x", "t">>

\* main.py line 123, document_processor.py lines 33-40
Supported(fname) ==
    \E x \in {ExtPdf, ExtDocx, ExtTxt} : EndsWith(LowerAll(fname), x)

\* line 46: the marker appended to a truncated text, "\n[Document truncated due
\* to size limit]", one character of the model for each word
TruncationMarker == <<"\n", "[", "D", "t", "d", "t", "s", "l", "]">>

\* lines 27-62: process_document(content, filename) of a processor with
\* chunk_size size and chunk_overlap overlap
ProcessDocument(file, size, overlap) ==
    LET low == LowerAll(file.filename)
        extracted == (EndsWith(low, ExtPdf) \/ EndsWith(low, ExtDocx))
        t == IF Len(file.content) > MaxDocSize
             THEN Slice(file.content, 0, MaxDocSize) \o TruncationMarker
             ELSE file.content
    IN  IF ~Supported(file.filename) \/ (extracted /\ ~file.parses)
        THEN [outcome |-> "raise", chunks |-> << >>]
        ELSE [outcome |-> "ok",
              chunks |-> CreateChunks(t, file.filename, size, overlap)]

(***************************************************************************)
(* VectorStore (backend/vector_store.py).  The SentenceTransformer is an   *)
(* external model: Encode stands for it, a deterministic map from a text   *)
(* to a vector of the model's dimension (character counts here).  A unit   *)
(* vector is kept as the smallest integer vector of its direction, and a   *)
(* cosine score ip / sqrt(nn) as the pair (ip, nn).                        *)
(***************************************************************************)
\* the dimensions of the embedding models a VectorStore may be created with
\* (model_name is a constructor argument; 384 for the default model)
Dimensions == {2, 3}

EmbedChars == <<"a", ".", "\n">>

Count(t, ch) == Cardinality({i \in 1..Len(t) : t[i] = ch})

\* self.model.encode([t])[0] for a model of dimension d
Encode(t, d) == [i \in 1..d |-> Count(t, EmbedChars[i])]

Dot(u, v) == LET n == Min(Len(u), Len(v))
                 RECURSIVE Sum(_)
                 Sum(i) == IF i = 0 THEN 0 ELSE u[i] * v[i] + Sum(i - 1)
             IN  Sum(n)

RECURSIVE Gcd(_, _)
Gcd(a, b) == IF b = 0 THEN a ELSE Gcd(b, a % b)

RECURSIVE GcdAll(_, _)
GcdAll(v, i) == IF i = 0 THEN 0 ELSE Gcd(v[i], GcdAll(v, i - 1))

\* v / np.linalg.norm(v): the direction of v (v itself when its norm is 0)
Normalize(v) ==
    LET g == GcdAll(v, Len(v))
    IN  IF g = 0 THEN v ELSE [i \in 1..Len(v) |-> v[i] \div g]

\* faiss.IndexFlatIP(d)
EmptyIndex(d) == [d |-> d, vecs |-> << >>]

\* {**md, **extra}
Merge(md, extra) ==
    [k \in DOMAIN md \cup DOMAIN extra |->
        IF k \in DOMAIN extra THEN extra[k] ELSE md[k]]

\* vector_id numbered within the call, from 0
VectorIdPerCall(docs, i) == i - 1

\* line 40: the vector_id of the chunk appended to docs (i: its place in the call)
VectorId(docs, i) == Len(docs)

\* lines 33-42: documents after appending chunks[i..]
RECURSIVE AppendDocs(_, _, _, _, _)
AppendDocs(docs, cks, i, doc_id, fname) ==
    IF i > Len(cks) THEN docs
    ELSE AppendDocs(
            Append(docs,
                   [content  |-> cks[i].content,
                    metadata |-> Merge(cks[i].metadata,
                                       [doc_id |-> doc_id, filename |-> fname,
                                        vector_id |-> VectorId(docs, i)])]),
            cks, i + 1, doc_id, fname)

\* lines 17-45: add_documents on the store st = [dimension, index, documents,
\* embeddings]; encode_raises: whether self.model.encode raises.  An empty chunk
\* list makes np.linalg.norm(axis=1) raise on the empty array; index.add raises
\* when the vectors' dimension is not the index's.
AddDocuments(st, cks, doc_id, fname, encode_raises) ==
    LET vecs == [i \in 1..Len(cks) |-> Normalize(Encode(cks[i].content, st.dimension))]
    IN  IF encode_raises \/ cks = << >> \/ st.index.d # st.dimension
        THEN [st EXCEPT !.outcome = "raise"]
        ELSE [outcome    |-> "ok",
              dimension  |-> st.dimension,
              index      |-> [st.index EXCEPT !.vecs = @ \o vecs],
              documents  |-> AppendDocs(st.documents, cks, 1, doc_id, fname),
              embeddings |-> st.embeddings \o vecs]

\* a clear that forgets the documents and keeps the index
ClearKeepsIndex(st) ==
    [st EXCEPT !.outcome = "ok", !.documents = << >>, !.embeddings = << >>]

\* lines 124-133: clear
ClearStore(st) ==
    [outcome    |-> "ok",
     dimension  |-> st.dimension,
     index      |-> EmptyIndex(st.dimension),
     documents  |-> << >>,
     embeddings |-> << >>]

\* score(q, v1) > score(q, v2) for directions v1, v2 with non-negative components
ScoreGT(q, v1, v2) ==
    Dot(q, v1) * Dot(q, v1) * Dot(v2, v2) > Dot(q, v2) * Dot(q, v2) * Dot(v1, v1)

\* the cosine of q and v, as ip / sqrt(nn)
ScoreOf(q, v) == [ip |-> Dot(q, v), nn |-> Dot(q, q) * Dot(v, v)]

\* score > 0.1
AboveThreshold(sc) == sc.ip > 0 /\ 100 * sc.ip * sc.ip > sc.nn

\* index.search(q, k): the positions of the k best vectors, best first, the
\* earlier position first among equals
RECURSIVE BestFirst(_, _, _, _)
BestFirst(q, vecs, left, k) ==
    IF k = 0 \/ left = {} THEN << >>
    ELSE LET b == CHOOSE i \in left :
                    \A j \in left \ {i} :
                        \/ ScoreGT(q, vecs[i], vecs[j])
                        \/ (~ScoreGT(q, vecs[j], vecs[i]) /\ i < j)
         IN  <<b>> \o BestFirst(q, vecs, left \ {b}, k - 1)

\* the key lines 69 of vector_store.py and 66, 175, 199 of main.py read
PrintedKey == "chunk_id"

\* lines 63-69: the results built from the positions ids (1-based here), until
\* the print of a result raises KeyError
RECURSIVE BuildResults(_, _, _, _, _)
BuildResults(q, vecs, docs, ids, acc) ==
    IF ids = << >> THEN [status |-> "ok", results |-> acc]
    ELSE LET idx == Head(ids)
         IN  IF idx <= Len(docs)
             THEN IF PrintedKey \in DOMAIN docs[idx].metadata
                  THEN BuildResults(q, vecs, docs, Tail(ids),
                           Append(acc, [content  |-> docs[idx].content,
                                        metadata |-> docs[idx].metadata,
                                        score    |-> ScoreOf(q, vecs[idx])]))
                  ELSE [status |-> "KeyError", results |-> << >>]
             ELSE BuildResults(q, vecs, docs, Tail(ids), acc)

\* lines 47-75: search(query, top_k) on the store st.  faiss asserts that the
\* query has the index's dimension and that k > 0.
Search(st, query, top_k) ==
    IF Len(st.index.vecs) = 0 THEN [status |-> "ok", results |-> << >>]
    ELSE LET q == Normalize(Encode(query, st.dimension))
             k == Min(top_k, Len(st.index.vecs))
         IN  IF st.index.d # st.dimension \/ k <= 0
             THEN [status |-> "AssertionError", results |-> << >>]
             ELSE LET ids == BestFirst(q, st.index.vecs,
                                       1..Len(st.index.vecs), k)
                      built == BuildResults(q, st.index.vecs, st.documents,
                                            ids, << >>)
                      Keep(r) == AboveThreshold(r.score)
                  IN  IF built.status = "ok"
                      THEN [status |-> "ok",
                            results |-> SelectSeq(built.results, Keep)]
                      ELSE built

(***************************************************************************)
(* The two files of a saved index.                                         *)
(***************************************************************************)
NoFaiss == [kind |-> "absent", d |-> 0, vecs |-> << >>]
BadFaiss == [kind |-> "corrupt", d |-> 0, vecs |-> << >>]
NoPkl == [kind |-> "absent", documents |-> << >>, embeddings |-> << >>]
BadPkl == [kind |-> "corrupt", documents |-> << >>, embeddings |-> << >>]

\* an index file written without the vectors
FaissOfNothing(st) == [kind |-> "data", d |-> st.index.d, vecs |-> << >>]

\* line 83: faiss.write_index
FaissOf(st) == [kind |-> "data", d |-> st.index.d, vecs |-> st.index.vecs]
\* lines 87-91: pickle.dump
PklOf(st) == [kind |-> "data", documents |-> st.documents,
              embeddings |-> st.embeddings]

\* where save_index may fail
SaveFailures == {"none", "makedirs", "write_index", "open_pkl", "dump"}

\* lines 77-96: the files after save_index that fails at fail (a failed write
\* leaves an unreadable file)
SaveFiles(st, ff, pf, fail) ==
    CASE fail = "none"        -> [outcome |-> "ok", faiss |-> FaissOf(st), pkl |-> PklOf(st)]
      [] fail = "makedirs"    -> [outcome |-> "raise", faiss |-> ff, pkl |-> pf]
      [] fail = "write_index" -> [outcome |-> "raise", faiss |-> BadFaiss, pkl |-> pf]
      [] fail = "open_pkl"    -> [outcome |-> "raise", faiss |-> FaissOf(st), pkl |-> pf]
      [] fail = "dump"        -> [outcome |-> "raise", faiss |-> FaissOf(st), pkl |-> BadPkl]

\* what load_index finds at the location
DiskKind(ff, pf) ==
    CASE ff.kind = "absent" /\ pf.kind = "absent" -> "missing"
      [] ff.kind = "absent" -> "only_pkl"
      [] pf.kind = "absent" -> "only_faiss"
      [] ff.kind = "corrupt" \/ pf.kind = "corrupt" -> "corrupt"
      [] OTHER -> "data"

\* lines 98-122: load_index.  Both files must exist (line 101); a file that
\* cannot be read raises, and the handler resets the store and raises again.
LoadIndex(st, ff, pf) ==
    IF ff.kind # "absent" /\ pf.kind # "absent"
    THEN IF ff.kind = "corrupt" \/ pf.kind = "corrupt"
         THEN [ClearStore(st) EXCEPT !.outcome = "raise"]
         ELSE [outcome    |-> "ok",
               dimension  |-> st.dimension,
               index      |-> [d |-> ff.d, vecs |-> ff.vecs],
               documents  |-> pf.documents,
               embeddings |-> pf.embeddings]
    ELSE [st EXCEPT !.outcome = "ok"]

VARIABLES
    text,           \* the text argument
    filename,       \* the filename argument
    chunk_size,     \* self.chunk_size
    chunk_overlap,  \* self.chunk_overlap
    start,          \* local start
    end,            \* local end (holds the previous window's end at the loop head)
    chunk_index,    \* local chunk_index
    chunks,         \* local chunks
    cpc,            \* position in _create_chunks: "entry", "loop", "done"
    iters           \* loop iterations run so far (a counter the code does not keep)

chunkVars == <<text, filename, chunk_size, chunk_overlap, start, end,
               chunk_index, chunks, cpc, iters>>

VARIABLES
    dimension,      \* vector_store.dimension
    index,          \* vector_store.index: [d, vecs]
    documents,      \* vector_store.documents
    embeddings,     \* vector_store.embeddings
    faissFile,      \* the file <vector_store_path>.faiss
    pklFile,        \* the file <vector_store_path>.pkl
    lastCall,       \* the latest call on the store and how it ended
    retired,        \* vector_ids that were assigned before a clear (not kept by the code)
    nadds           \* documents added so far: the source of fresh doc_ids

storeVars == <<dimension, index, documents, embeddings, faissFile, pklFile,
               lastCall, retired, nadds>>

VARIABLES
    handler,        \* the application that runs: "fastapi" (main.py), "gradio" (app.py)
    reqs            \* the upload requests: position, batch, locals, response

upVars == <<handler, reqs>>

VARIABLES
    backend,        \* the store the ingestion tasks share: "faiss" or "supabase"
    docTable,       \* the rows of Supabase table "documents", in insertion order
    chunkTable,     \* the rows of Supabase table "chunks", in insertion order
    tasks           \* the concurrent add_documents calls

supaVars == <<backend, docTable, chunkTable, tasks>>

VARIABLES
    hashCalls       \* the calls of the hash embedding functions made so far

hashVars == <<hashCalls>>

VARIABLES
    sessions,       \* main.py's sessions: session id -> the messages of the session
    streams,        \* the StreamingResponses chat_endpoint returned, not yet sent
    history,        \* the value of app.py's Chatbot component
    nchats          \* chat calls made so far (a counter the code does not keep)

chatVars == <<sessions, streams, history, nchats>>

vars == <<chunkVars, storeVars, upVars, supaVars, hashVars, chatVars>>

ShortTexts == UNION {[1..n -> Alphabet] : n \in 0..MaxLen}
TailTexts == UNION {[1..n -> Alphabet] : n \in 0..MaxTail}

\* texts long enough for a '.' to lie 100 characters into a window: a run of
\* letters, the sentence end, a short tail
LongTexts ==
    {Rep("a", p) \o <<".">> \o t :
        p \in (MinBoundaryOffset - 1)..(MinBoundaryOffset + 1), t \in TailTexts}

\* a text of three sentences, chunked with chunk_size 20 and chunk_overlap 5
SentencesText ==
    <<"A", "I", " ", "i", "s", " ", "u", "s", "e", "f", "u", "l", ".",
      " ", "A", "I", " ", "h", "e", "l", "p", "s", " ", "h", "e", "a",
      "l", "t", "h", "c", "a", "r", "e", ".", " ", "A", "I", " ", "h",
      "e", "l", "p", "s", " ", "f", "i", "n", "a", "n", "c", "e", ".">>

SentencesInput == <<SentencesText, 20, 5>>

\* a text whose second word is as long as chunk_size, chunked with
\* chunk_size 3 and chunk_overlap 2
LongWordInput == <<<<"a", "b", " ", "a", "a", "a">>, 3, 2>>

\* (text, chunk_size, chunk_overlap) given to _create_chunks
ChunkInputs ==
    (ShortTexts \X (1..MaxChunkSize) \X (0..MaxOverlap))
    \cup {SentencesInput, LongWordInput}
    \cup (LongTexts \X ((MinBoundaryOffset + 1)..(MinBoundaryOffset + MaxTail + 1))
                    \X {0, 1, MinBoundaryOffset + MaxTail + 1})

DocName == <<"d", ".", "t", "x", "t">>

\* the store of the chunking runs: not created
StoreIdle ==
    /\ dimension = 0
    /\ index = EmptyIndex(0)
    /\ documents = << >>
    /\ embeddings = << >>
    /\ faissFile = NoFaiss
    /\ pklFile = NoPkl
    /\ lastCall = [op |-> "none", outcome |-> "ok", results |-> << >>,
                   top_k |-> 0, vectors |-> 0, disk |-> "missing"]
    /\ retired = {}
    /\ nadds = 0

IdleRequest ==
    [pc |-> "idle", files |-> << >>, clear_existing |-> FALSE, i |-> 0,
     content |-> << >>, cks |-> << >>,
     response |-> [status |-> "none", documents |-> << >>]]

Requests == {1, 2}

\* no upload handler runs
UploadIdle ==
    /\ handler = "none"
    /\ reqs = [r \in Requests |-> IdleRequest]

Tasks == {1, 2}

IdleTask == [pc |-> "idle", cks |-> << >>, llm |-> FALSE, embedded |-> 0,
             fallback |-> FALSE, outcome |-> "none", error |-> "none"]

HashIdle == hashCalls = {}

\* main.py line 42: sessions = {}
NoSessions == [id \in {} |-> << >>]

\* no chat was made
ChatIdle ==
    /\ sessions = NoSessions
    /\ streams = {}
    /\ history = << >>
    /\ nchats = 0

SupaIdle ==
    /\ backend = "none"
    /\ docTable = << >>
    /\ chunkTable = << >>
    /\ tasks = [t \in Tasks |-> IdleTask]

ChunkInit ==
    /\ HashIdle
    /\ ChatIdle
    /\ SupaIdle
    /\ StoreIdle
    /\ UploadIdle
    /\ \E inp \in ChunkInputs :
          /\ text = inp[1]
          /\ chunk_size = inp[2]
          /\ chunk_overlap = inp[3]
    /\ filename = DocName
    /\ start = 0
    /\ end = 0
    /\ chunk_index = 0
    /\ chunks = << >>
    /\ cpc = "entry"
    /\ iters = 0

\* lines 143-148
ChunkEnter ==
    /\ cpc = "entry"
    /\ cpc' = IF Strip(text) = << >> THEN "done" ELSE "loop"
    /\ UNCHANGED <<text, filename, chunk_size, chunk_overlap, start, end,
                   chunk_index, chunks, iters, storeVars, upVars, supaVars, hashVars, chatVars>>

\* lines 150-185: the loop test and one iteration
ChunkIter ==
    /\ cpc = "loop"
    /\ IF start < Len(text)
       THEN LET e == WindowEnd(text, start, chunk_size)
            IN  /\ end' = e
                /\ chunks' = EmitChunk(chunks, text, filename, chunk_index, start, e)
                /\ chunk_index' = NextIndex(text, chunk_index, start, e)
                /\ iters' = iters + 1
                /\ IF e >= Len(text)
                   THEN /\ cpc' = "done"
                        /\ start' = start
                   ELSE /\ cpc' = "loop"
                        /\ start' = NextStart(start, e, chunk_overlap)
       ELSE /\ cpc' = "done"
            /\ UNCHANGED <<start, end, chunk_index, chunks, iters>>
    /\ UNCHANGED <<text, filename, chunk_size, chunk_overlap, storeVars, upVars, supaVars, hashVars, chatVars>>

ChunkNext == ChunkEnter \/ ChunkIter

SpecChunk == ChunkInit /\ [][ChunkNext]_vars

(***************************************************************************)
(* One VectorStore and its saved files, called in any order.               *)
(***************************************************************************)
\* the processor of the store runs: configured, no call in progress
ProcessorIdle ==
    /\ text = << >>
    /\ filename = << >>
    /\ chunk_size = UploadChunkSize
    /\ chunk_overlap = UploadOverlap
    /\ start = 0
    /\ end = 0
    /\ chunk_index = 0
    /\ chunks = << >>
    /\ cpc = "done"
    /\ iters = 0

\* extracted texts of uploaded documents: blank, one chunk, several chunks
StoreTexts == {<<" ">>, <<"a">>, <<".", " ", "a">>}
StoreFileName == <<"a", ".", "t", "x", "t">>
Queries == {<<"a">>, <<".">>}
\* top_k: 0..MaxTopK, app.py's 3 (line 52) and main.py's 5 (line 170)
TopKs == (0..MaxTopK) \cup {3, 5}

StoreRec == [outcome |-> "ok", dimension |-> dimension, index |-> index,
             documents |-> documents, embeddings |-> embeddings]

SetStore(r) ==
    /\ dimension' = r.dimension
    /\ index' = r.index
    /\ documents' = r.documents
    /\ embeddings' = r.embeddings

\* a call and how it ended; vectors and disk are what the call found
Call(op, outcome, results, top_k) ==
    [op |-> op, outcome |-> outcome, results |-> results, top_k |-> top_k,
     vectors |-> Len(index.vecs), disk |-> DiskKind(faissFile, pklFile)]

\* a call of the Supabase store and how it ended; vectors is the number of
\* chunk rows the call found, query what was searched for
SupaCall(op, outcome, results, top_k, query) ==
    [op |-> op, outcome |-> outcome, results |-> results, top_k |-> top_k,
     vectors |-> Len(chunkTable), disk |-> "missing", query |-> query]

\* the store's variables but lastCall
storeRest == <<dimension, index, documents, embeddings, faissFile, pklFile,
               retired, nadds>>

\* lines 9-15: a store just created with a model of dimension d
NewStore(d) == [outcome |-> "ok", dimension |-> d, index |-> EmptyIndex(d),
                documents |-> << >>, embeddings |-> << >>]

\* the files an earlier process left after add_documents and save_index on a
\* store created with a model of dimension d
SavedBefore(d) ==
    LET st == AddDocuments(NewStore(d),
                  CreateChunks(<<".", " ", "a">>, StoreFileName,
                               UploadChunkSize, UploadOverlap),
                  0, StoreFileName, FALSE)
    IN  SaveFiles(st, NoFaiss, NoPkl, "none")

FaissInit ==
    /\ HashIdle
    /\ ChatIdle
    /\ SupaIdle
    /\ ProcessorIdle
    /\ UploadIdle
    /\ dimension \in Dimensions
    /\ index = EmptyIndex(dimension)
    /\ documents = << >>
    /\ embeddings = << >>
    /\ \/ faissFile = NoFaiss /\ pklFile = NoPkl
       \/ \E d \in Dimensions :
             faissFile = SavedBefore(d).faiss /\ pklFile = SavedBefore(d).pkl
    /\ lastCall = [op |-> "none", outcome |-> "ok", results |-> << >>,
                   top_k |-> 0, vectors |-> 0, disk |-> "missing"]
    /\ retired = {}
    /\ nadds = 0

VectorIds(docs) == {docs[i].metadata.vector_id : i \in 1..Len(docs)}

\* vector_store.add_documents(chunks, doc_id, filename) with the chunks of a
\* processed document
FaissAdd ==
    /\ nadds < MaxAdds
    /\ Len(documents) < MaxStored
    /\ \E t \in StoreTexts, encode_raises \in BOOLEAN :
          LET cks == CreateChunks(t, StoreFileName, chunk_size, chunk_overlap)
              r == AddDocuments(StoreRec, cks, nadds + 1, StoreFileName,
                                encode_raises)
          IN  /\ SetStore(r)
              /\ lastCall' = Call("add", r.outcome, << >>, 0)
    /\ nadds' = nadds + 1
    /\ UNCHANGED <<faissFile, pklFile, retired, chunkVars, upVars, supaVars, hashVars, chatVars>>

\* vector_store.clear()
FaissClear ==
    /\ SetStore(ClearStore(StoreRec))
    /\ lastCall' = Call("clear", "ok", << >>, 0)
    /\ retired' = retired \cup VectorIds(documents)
    /\ UNCHANGED <<faissFile, pklFile, nadds, chunkVars, upVars, supaVars, hashVars, chatVars>>

\* vector_store.save_index(vector_store_path)
FaissSave ==
    /\ \E fail \in SaveFailures :
          LET r == SaveFiles(StoreRec, faissFile, pklFile, fail)
          IN  /\ faissFile' = r.faiss
              /\ pklFile' = r.pkl
              /\ lastCall' = Call("save", r.outcome, << >>, 0)
    /\ UNCHANGED <<dimension, index, documents, embeddings, retired, nadds,
                   chunkVars, upVars, supaVars, hashVars, chatVars>>

\* vector_store.load_index(vector_store_path)
FaissLoad ==
    /\ LET r == LoadIndex(StoreRec, faissFile, pklFile)
       IN  /\ SetStore(r)
           /\ lastCall' = Call("load", r.outcome, << >>, 0)
    /\ UNCHANGED <<faissFile, pklFile, retired, nadds, chunkVars, upVars, supaVars, hashVars, chatVars>>

\* vector_store.search(query, top_k)
FaissSearch ==
    /\ \E q \in Queries, k \in TopKs :
          LET r == Search(StoreRec, q, k)
          IN  lastCall' = Call("search", r.status, r.results, k)
    /\ UNCHANGED <<dimension, index, documents, embeddings, faissFile, pklFile,
                   retired, nadds, chunkVars, upVars, supaVars, hashVars, chatVars>>

\* main.py lines 86-100: POST /documents/clear; os.remove may fail on either file
ClearDocuments ==
    /\ SetStore(ClearStore(StoreRec))
    /\ retired' = retired \cup VectorIds(documents)
    /\ \E fail \in {"none", "remove_faiss", "remove_pkl"} :
          /\ faissFile' = IF fail = "remove_faiss" THEN faissFile ELSE NoFaiss
          /\ pklFile' = IF fail = "none" THEN NoPkl ELSE pklFile
          /\ lastCall' = Call("clear", IF fail = "none" THEN "ok" ELSE "raise", << >>, 0)
    /\ UNCHANGED <<nadds, chunkVars, upVars, supaVars, hashVars, chatVars>>

FaissNext ==
    \/ FaissAdd
    \/ FaissClear
    \/ FaissSave
    \/ FaissLoad
    \/ FaissSearch
    \/ ClearDocuments

SpecFaiss == FaissInit /\ [][FaissNext]_vars

\* one VectorStore on which only add_documents, clear and search are called
AddSearchNext == FaissAdd \/ FaissClear \/ FaissSearch

SpecAddSearch == FaissInit /\ [][AddSearchNext]_vars

(***************************************************************************)
(* Claims about VectorStore.                                               *)
(***************************************************************************)
\* C5 as claimed: across add_documents and clear calls, the vector_ids of the
\* stored chunks are pairwise different and none equals an identifier that was
\* assigned before an earlier clear.
C5_IdsNeverReused ==
    /\ \A i, j \in 1..Len(documents) :
          i # j => documents[i].metadata.vector_id # documents[j].metadata.vector_id
    /\ \A i \in 1..Len(documents) : documents[i].metadata.vector_id \notin retired

\* C5 as amended: across add_documents and clear calls, the vector_id of every
\* stored chunk is its 0-based position in the documents list, hence unique
\* among the stored chunks; clear restarts the numbering at 0.
C5_IdsUniqueByPosition ==
    /\ \A i \in 1..Len(documents) : documents[i].metadata.vector_id = i - 1
    /\ \A i, j \in 1..Len(documents) :
          i # j => documents[i].metadata.vector_id # documents[j].metadata.vector_id
    /\ lastCall.op = "clear" => documents = << >>

\* C5 witness: several chunks stored by an add made after a clear that retired
\* identifiers
C5_Witness ==
    /\ lastCall.op = "add" /\ lastCall.outcome = "ok"
    /\ retired # {}
    /\ Len(documents) >= 2

\* C6 as claimed: a search with top_k >= 1 on a non-empty index built by
\* add_documents from the processor's chunks ends without raising, and every
\* result carries content, metadata.filename, metadata.chunk_index and a score.
C6_SearchCompletes ==
    (lastCall.op = "search" /\ lastCall.vectors > 0 /\ lastCall.top_k >= 1) =>
        /\ lastCall.outcome = "ok"
        /\ \A i \in 1..Len(lastCall.results) :
              /\ {"content", "metadata", "score"} \subseteq DOMAIN lastCall.results[i]
              /\ {"filename", "chunk_index"} \subseteq
                     DOMAIN lastCall.results[i].metadata

\* C7 as claimed: load_index from a location that is missing, holds one file of
\* the two, or holds an unreadable file leaves the store empty and raises.
C7_FailedLoadResetsAndRaises ==
    (lastCall.op = "load" /\ lastCall.disk # "data") =>
        /\ lastCall.outcome = "raise"
        /\ Len(index.vecs) = 0
        /\ documents = << >>
        /\ embeddings = << >>

\* C8 as claimed: in every state reached by add_documents, clear, save_index
\* and load_index the live index has the dimension the store was created with.
C8_DimensionFixed == index.d = dimension

(***************************************************************************)
(* Claims about _create_chunks.                                            *)
(***************************************************************************)
\* the text is not whitespace only, and the configuration is the valid one
ValidChunking == Strip(text) # << >> /\ chunk_size > chunk_overlap

\* the loop run step by step returns what CreateChunks computes
ChunkLoopAgrees ==
    cpc = "done" => chunks = CreateChunks(text, filename, chunk_size, chunk_overlap)

\* C1: for every text, chunk_size >= 1 and overlap >= 0 (also overlap >=
\* chunk_size) the loop runs at most len(text) iterations, and the window start
\* has grown by at least one per iteration whenever the loop head is reached
\* again, so the loop cannot stay in place.
C1_Terminates ==
    /\ iters <= Len(text)
    /\ cpc = "loop" => start >= iters
    /\ cpc = "done" => start >= iters - 1

\* C1 witness: a run with overlap >= chunk_size finished after several iterations
C1_Witness ==
    cpc = "done" /\ chunk_overlap >= chunk_size /\ iters >= 3 /\ Len(chunks) >= 2

\* C2: with non-empty text and chunk_size > overlap >= 0, every chunk has
\* non-empty content with no leading or trailing whitespace, and the i-th chunk
\* emitted carries chunk_index i-1, whether or not spans were dropped.
C2_ChunksNonEmptyIndexed ==
    ValidChunking =>
        \A i \in 1..Len(chunks) :
            /\ chunks[i].content # << >>
            /\ Strip(chunks[i].content) = chunks[i].content
            /\ chunks[i].metadata.chunk_index = i - 1

\* C2 witness: a finished run in which a whitespace-only span was dropped between
\* two emitted chunks (the later chunk does not start where the earlier window's
\* successor starts)
C2_Witness ==
    /\ cpc = "done" /\ ValidChunking
    /\ \E i \in 1..(Len(chunks) - 1) :
          chunks[i + 1].metadata.start_pos #
            NextStart(chunks[i].metadata.start_pos, chunks[i].metadata.end_pos,
                      chunk_overlap)

\* the chunk that holds the character at 0-based offset p of the text, at the
\* offset the trimming leaves it at
Covers(c, p) ==
    LET s == c.metadata.start_pos
        k == p - s - LeadWs(Slice(text, s, c.metadata.end_pos)) + 1
    IN  /\ s <= p /\ p < c.metadata.end_pos
        /\ k \in 1..Len(c.content)
        /\ c.content[k] = text[p + 1]

\* C3: with non-empty text and chunk_size > overlap >= 0 the windows leave no
\* gap: the first starts at 0, each next one starts at or before the previous
\* window's end, the last one reaches the end of the text, and every
\* non-whitespace character scanned so far is in some chunk.
C3_NoGaps ==
    ValidChunking =>
        /\ (cpc = "loop" /\ iters = 0) => start = 0
        /\ (cpc = "loop" /\ iters > 0) => start <= end
        /\ cpc = "done" => end >= Len(text)
        /\ \A p \in 0..(Len(text) - 1) :
              (iters > 0 /\ p < end /\ text[p + 1] \notin Whitespace) =>
                  \E i \in 1..Len(chunks) : Covers(chunks[i], p)

\* C3 witness: a finished run of several overlapping windows over a text with
\* whitespace in it
C3_Witness ==
    /\ cpc = "done" /\ ValidChunking
    /\ chunk_overlap > 0 /\ Len(chunks) >= 2
    /\ \E i \in 1..Len(text) : text[i] \in Whitespace

\* the last '.' of the window of chunk c, or -1
LastDot(c) == RFind(text, ".", c.metadata.start_pos, c.metadata.start_pos + chunk_size)

\* the '.' lies the minimum fraction of chunk_size into the window: the
\* fraction that line 157's 100 is of the processor's chunk_size of 800
DeepEnough(c) ==
    (LastDot(c) - c.metadata.start_pos) * DefaultChunkSize
        >= MinBoundaryOffset * chunk_size

\* C14 as claimed: a chunk whose window's right edge falls before the end of
\* the text ends just after the last '.' of the window when that '.' lies at
\* least the minimum fraction of chunk_size into the window.
C14_EndsOnSentence ==
    \A i \in 1..Len(chunks) :
        LET c == chunks[i]
        IN  (/\ c.metadata.start_pos + chunk_size < Len(text)
             /\ LastDot(c) # -1
             /\ DeepEnough(c))
            => c.metadata.end_pos = LastDot(c) + 1

\* the three sentences with chunk_size 20 and overlap 5: the first chunk ends
\* on the first sentence's '.'
C14_SentencesExample ==
    (<<text, chunk_size, chunk_overlap>> = SentencesInput /\ chunks # << >>)
        => chunks[1].metadata.end_pos = 13

\* a text of one long token: no '.' and no whitespace
OneToken == \A i \in 1..Len(text) : text[i] # "." /\ text[i] \notin Whitespace

CeilDiv(a, b) == (a + b - 1) \div b

\* C15: for a text of length n with no '.' and no whitespace and
\* chunk_size > overlap >= 0, the window advances by chunk_size - overlap on
\* every step and _create_chunks returns at most
\* ceil(n / (chunk_size - overlap)) chunks.
C15_OneTokenBound ==
    (OneToken /\ chunk_size > chunk_overlap) =>
        /\ cpc = "loop" => start = iters * (chunk_size - chunk_overlap)
        /\ Len(chunks) <= CeilDiv(Len(text), chunk_size - chunk_overlap)

\* C15 witness: a finished run over one token that took several windows and
\* returned as many chunks as the bound allows
C15_Witness ==
    /\ cpc = "done" /\ OneToken /\ chunk_size > chunk_overlap /\ chunk_overlap > 0
    /\ Len(chunks) >= 2
    /\ Len(chunks) = CeilDiv(Len(text), chunk_size - chunk_overlap)

(***************************************************************************)
(* The upload handlers: upload_documents (main.py) and upload_and_process  *)
(* (app.py).  A request runs from one await to the next in one step.  An   *)
(* await of a coroutine that never suspends (process_document,             *)
(* VectorStore.add_documents) lets no other request run, so the program's  *)
(* interleavings are among those of these steps.                           *)
(***************************************************************************)
UploadFiles ==
    {[filename |-> <<"a", ".", "t", "x", "t">>, content |-> <<"a">>, parses |-> TRUE],
     [filename |-> <<"B", ".", "T", "X", "T">>, content |-> <<".", " ", "a">>,
      parses |-> TRUE],
     [filename |-> <<"c", ".", "e", "x", "e">>, content |-> <<"a">>, parses |-> TRUE],
     [filename |-> <<"d", ".", "p", "d", "f">>, content |-> <<"a">>, parses |-> FALSE],
     [filename |-> <<"e", ".", "t", "x", "t">>, content |-> <<" ">>, parses |-> TRUE]}

\* the non-empty file lists of an upload
Batches == UNION {[1..n -> UploadFiles] : n \in 1..MaxBatch}

UploadInit ==
    /\ HashIdle
    /\ ChatIdle
    /\ SupaIdle
    /\ ProcessorIdle
    /\ handler \in {"fastapi", "gradio"}
    /\ reqs = [r \in Requests |-> IdleRequest]
    /\ dimension \in Dimensions
    /\ index = EmptyIndex(dimension)
    /\ documents = << >>
    /\ embeddings = << >>
    /\ faissFile = NoFaiss
    /\ pklFile = NoPkl
    /\ lastCall = [op |-> "none", outcome |-> "ok", results |-> << >>,
                   top_k |-> 0, vectors |-> 0, disk |-> "missing"]
    /\ retired = {}
    /\ nadds = 0

\* one line of a response: the file, whether it was indexed, its chunk count
Report(file, ok, n) == [filename |-> file.filename, ok |-> ok, chunks |-> n]

\* main.py lines 155-156: any exception ends the request with status 500
Failed(req) ==
    [req EXCEPT !.pc = "done",
                !.response = [status |-> "500", documents |-> << >>]]

\* main.py lines 121-127 and 143-153 for the request req whose next file is
\* req.i: the request failed on the file's extension, suspended in file.read(),
\* or, past the last file, answered (save_index having run)
ApiAtFile(req) ==
    IF req.i > Len(req.files)
    THEN [req EXCEPT !.pc = "done", !.response.status = "200"]
    ELSE IF Supported(req.files[req.i].filename)
         THEN [req EXCEPT !.pc = "read"]
         ELSE Failed(req)

\* main.py lines 143-148: save_index runs when the loop ends; its failure is
\* printed and dropped
ApiSaves(req, st) ==
    IF req.pc = "done" /\ req.response.status = "200"
    THEN \E fail \in SaveFailures :
            LET sv == SaveFiles(st, faissFile, pklFile, fail)
            IN  faissFile' = sv.faiss /\ pklFile' = sv.pkl
    ELSE UNCHANGED <<faissFile, pklFile>>

\* main.py lines 105-127: the request starts, clears the store and its files
\* when asked to, and reaches the first file
ApiBegin(r) ==
    /\ handler = "fastapi"
    /\ reqs[r].pc = "idle"
    /\ \E batch \in Batches, ce \in BOOLEAN :
          LET st == IF ce THEN ClearStore(StoreRec) ELSE StoreRec
              req == ApiAtFile([reqs[r] EXCEPT !.files = batch,
                                               !.clear_existing = ce, !.i = 1])
          IN  /\ SetStore(st)
              /\ retired' = IF ce THEN retired \cup VectorIds(documents) ELSE retired
              /\ faissFile' = IF ce THEN NoFaiss ELSE faissFile
              /\ pklFile' = IF ce THEN NoPkl ELSE pklFile
              /\ reqs' = [reqs EXCEPT ![r] = req]
    /\ UNCHANGED <<lastCall, nadds, handler, chunkVars, supaVars, hashVars, chatVars>>

\* main.py line 127: file.read() returns
ApiRead(r) ==
    /\ handler = "fastapi"
    /\ reqs[r].pc = "read"
    /\ reqs' = [reqs EXCEPT ![r].content = reqs[r].files[reqs[r].i].content,
                            ![r].pc = "process"]
    /\ UNCHANGED <<storeVars, handler, chunkVars, supaVars, hashVars, chatVars>>

\* main.py line 130: process_document returns or raises
ApiProcess(r) ==
    /\ handler = "fastapi"
    /\ reqs[r].pc = "process"
    /\ LET p == ProcessDocument(reqs[r].files[reqs[r].i], chunk_size, chunk_overlap)
       IN  reqs' = [reqs EXCEPT ![r] =
                      IF p.outcome = "ok"
                      THEN [reqs[r] EXCEPT !.cks = p.chunks, !.pc = "add"]
                      ELSE Failed(reqs[r])]
    /\ UNCHANGED <<storeVars, handler, chunkVars, supaVars, hashVars, chatVars>>

\* main.py lines 133-153: add_documents returns or raises; on return the file is
\* reported and the loop goes on to the next file or to save_index and the answer
ApiAdd(r) ==
    /\ handler = "fastapi"
    /\ reqs[r].pc = "add"
    /\ LET file == reqs[r].files[reqs[r].i]
           a == AddDocuments(StoreRec, reqs[r].cks, nadds + 1, file.filename, FALSE)
           req == IF a.outcome = "ok"
                  THEN ApiAtFile([reqs[r] EXCEPT
                          !.response.documents =
                              Append(@, Report(file, TRUE, Len(reqs[r].cks))),
                          !.i = @ + 1])
                  ELSE Failed(reqs[r])
       IN  /\ SetStore(a)
           /\ lastCall' = Call("add", a.outcome, << >>, 0)
           /\ reqs' = [reqs EXCEPT ![r] = req]
           /\ ApiSaves(req, a)
    /\ nadds' = nadds + 1
    /\ UNCHANGED <<retired, handler, chunkVars, supaVars, hashVars, chatVars>>

\* app.py lines 26-33 and 43 for the request req whose next file is req.i: the
\* file is read and the request suspends in process_document, or, past the last
\* file, returns the report lines
GrAtFile(req) ==
    IF req.i > Len(req.files)
    THEN [req EXCEPT !.pc = "done", !.response.status = "text"]
    ELSE [req EXCEPT !.pc = "process", !.content = req.files[req.i].content]

\* app.py lines 40-41: the file's error is reported and the loop goes on
GrFileFailed(req) ==
    GrAtFile([req EXCEPT
        !.response.documents = Append(@, Report(req.files[req.i], FALSE, 0)),
        !.i = @ + 1])

\* app.py lines 19-33: no files, or clear and the first file read
GrBegin(r) ==
    /\ handler = "gradio"
    /\ reqs[r].pc = "idle"
    /\ \E batch \in Batches \cup {<< >>} :
          IF batch = << >>
          THEN /\ reqs' = [reqs EXCEPT ![r].pc = "done",
                                       ![r].response.status = "No files uploaded"]
               /\ UNCHANGED <<dimension, index, documents, embeddings, retired>>
          ELSE /\ SetStore(ClearStore(StoreRec))
               /\ retired' = retired \cup VectorIds(documents)
               /\ reqs' = [reqs EXCEPT ![r] =
                             GrAtFile([reqs[r] EXCEPT !.files = batch,
                                                      !.clear_existing = TRUE,
                                                      !.i = 1])]
    /\ UNCHANGED <<faissFile, pklFile, lastCall, nadds, handler, chunkVars, supaVars, hashVars, chatVars>>

\* app.py line 33: process_document returns or raises
GrProcess(r) ==
    /\ handler = "gradio"
    /\ reqs[r].pc = "process"
    /\ LET p == ProcessDocument(reqs[r].files[reqs[r].i], chunk_size, chunk_overlap)
       IN  reqs' = [reqs EXCEPT ![r] =
                      IF p.outcome = "ok"
                      THEN [reqs[r] EXCEPT !.cks = p.chunks, !.pc = "add"]
                      ELSE GrFileFailed(reqs[r])]
    /\ UNCHANGED <<storeVars, handler, chunkVars, supaVars, hashVars, chatVars>>

\* app.py lines 36-43: add_documents returns or raises, the file is reported
\* either way, and the loop goes on
GrAdd(r) ==
    /\ handler = "gradio"
    /\ reqs[r].pc = "add"
    /\ LET file == reqs[r].files[reqs[r].i]
           a == AddDocuments(StoreRec, reqs[r].cks,
                             Len(reqs[r].response.documents), file.filename, FALSE)
       IN  /\ SetStore(a)
           /\ lastCall' = Call("add", a.outcome, << >>, 0)
           /\ reqs' = [reqs EXCEPT ![r] =
                         IF a.outcome = "ok"
                         THEN GrAtFile([reqs[r] EXCEPT
                                 !.response.documents =
                                     Append(@, Report(file, TRUE, Len(reqs[r].cks))),
                                 !.i = @ + 1])
                         ELSE GrFileFailed(reqs[r])]
    /\ nadds' = nadds + 1
    /\ UNCHANGED <<faissFile, pklFile, retired, handler, chunkVars, supaVars, hashVars, chatVars>>

UploadNext ==
    \/ \E r \in Requests : ApiBegin(r)
    \/ \E r \in Requests : ApiRead(r)
    \/ \E r \in Requests : ApiProcess(r)
    \/ \E r \in Requests : ApiAdd(r)
    \/ \E r \in Requests : GrBegin(r)
    \/ \E r \in Requests : GrProcess(r)
    \/ \E r \in Requests : GrAdd(r)

SpecUpload == UploadInit /\ [][UploadNext]_vars

(***************************************************************************)
(* Claims about the upload handlers.                                       *)
(***************************************************************************)
\* a file that process_document and add_documents both accept
Ingestible(file) ==
    LET p == ProcessDocument(file, UploadChunkSize, UploadOverlap)
    IN  Supported(file.filename) /\ p.outcome = "ok" /\ p.chunks # << >>

\* the answer of a finished request reports every file of its batch, each as
\* indexed exactly when nothing is wrong with that file
ReportsEveryFile(req) ==
    /\ Len(req.response.documents) = Len(req.files)
    /\ \A j \in 1..Len(req.files) :
          /\ req.response.documents[j].filename = req.files[j].filename
          /\ req.response.documents[j].ok = Ingestible(req.files[j])

\* C9 as claimed: when an upload of several files ends, in either application,
\* a file with a fatal error is reported as failed, every other file of the
\* batch was processed and indexed, and the response has one line per file.
C9_PerFileOutcome ==
    \A r \in Requests :
        reqs[r].pc = "done" /\ Len(reqs[r].files) >= 2 => ReportsEveryFile(reqs[r])

\* what C9 claims holds of app.py's upload_and_process
C9_HoldsInGradio ==
    handler = "gradio" => C9_PerFileOutcome

(***************************************************************************)
(* VectorStoreSupabase.add_documents (backend/vector_store_supabase.py).   *)
(* The tables are the sequences of their rows in insertion order.  An      *)
(* embedding is kept as the function that made it and the text it is of.   *)
(***************************************************************************)
\* line 137: "...[truncated]", the word as one character
ChunkTruncationMarker == <<".", ".", ".", "[", "t", "]">>

\* lines 132-138: the text stored for a chunk
LimitText(t) ==
    IF Len(t) > MaxChunkText
    THEN Slice(t, 0, MaxChunkText) \o ChunkTruncationMarker
    ELSE t

\* lines 132-138: chunk_texts
ChunkTexts(cks) == [i \in 1..Len(cks) |-> LimitText(cks[i].content)]

\* line 173, enumerate: chunk_index of the i-th chunk text
RowIndex(i) == i - 1

\* lines 171-180: chunk_rows, the embeddings made by generate_embeddings
\* (kind "llm") or by _create_simple_embedding (kind "simple")
ChunkRows(doc_id, texts, kind) ==
    [i \in 1..Len(texts) |->
        [document_id |-> doc_id, chunk_index |-> RowIndex(i), content |-> texts[i],
         embedding |-> [kind |-> kind, of |-> texts[i]]]]

NextBatchSkips(s) == s + BATCH_SIZE + 1

\* line 183, range(0, len(chunk_rows), BATCH_SIZE): the start after start s
NextBatch(s) == s + BATCH_SIZE

\* lines 183-187: the inserts of chunk_rows from start s on into table; the
\* insert number fail returns an error (0: none does)
RECURSIVE InsertBatches(_, _, _, _)
InsertBatches(table, rows, s, fail) ==
    IF s >= Len(rows) THEN [outcome |-> "ok", error |-> "none", table |-> table]
    ELSE IF fail = (s \div BATCH_SIZE) + 1
         THEN [outcome |-> "raise", error |-> "insert_chunks", table |-> table]
         ELSE InsertBatches(table \o Slice(rows, s, s + BATCH_SIZE), rows,
                            NextBatch(s), fail)

\* lines 164-191: from the embeddings to the return; np.linalg.norm(axis=1)
\* raises on the array of no embeddings
StoreChunks(table, doc_id, texts, kind, fail) ==
    IF texts = << >>
    THEN [outcome |-> "raise", error |-> "norm_of_nothing", table |-> table]
    ELSE InsertBatches(table, ChunkRows(doc_id, texts, kind), 0, fail)

\* the chunk lists the concurrent calls are given: those of a blank, a one-chunk
\* and a two-chunk document, and one of more chunks than one insert takes
ManyChunks ==
    [i \in 1..(BATCH_SIZE + 1) |-> MakeChunk(<<"a">>, StoreFileName, i - 1, i - 1, i)]

ConcChunks ==
    {CreateChunks(txt, StoreFileName, UploadChunkSize, UploadOverlap) :
        txt \in StoreTexts} \cup {ManyChunks}

ConcInit ==
    /\ HashIdle
    /\ ChatIdle
    /\ ProcessorIdle
    /\ UploadIdle
    /\ backend \in {"faiss", "supabase"}
    /\ docTable = << >>
    /\ chunkTable = << >>
    /\ tasks = [t \in Tasks |-> IdleTask]
    /\ dimension \in Dimensions
    /\ index = EmptyIndex(dimension)
    /\ documents = << >>
    /\ embeddings = << >>
    /\ faissFile = NoFaiss
    /\ pklFile = NoPkl
    /\ lastCall = [op |-> "none", outcome |-> "ok", results |-> << >>,
                   top_k |-> 0, vectors |-> 0, disk |-> "missing"]
    /\ retired = {}
    /\ nadds = 0

Ended(task, cks, outcome) ==
    [task EXCEPT !.pc = "done", !.cks = cks, !.outcome = outcome]

\* vector_store.py lines 17-45: task t's add_documents(chunks, doc_id = t,
\* filename); the coroutine has no await and runs to its end in one step
FaissTaskAdd(t) ==
    /\ backend = "faiss"
    /\ tasks[t].pc = "idle"
    /\ \E cks \in ConcChunks, encode_raises \in BOOLEAN :
          LET r == AddDocuments(StoreRec, cks, t, StoreFileName, encode_raises)
          IN  /\ SetStore(r)
              /\ lastCall' = Call("add", r.outcome, << >>, 0)
              /\ tasks' = [tasks EXCEPT ![t] = Ended(@, cks, r.outcome)]
    /\ nadds' = nadds + 1
    /\ UNCHANGED <<faissFile, pklFile, retired, backend, docTable, chunkTable,
                   chunkVars, upVars, hashVars, chatVars>>

\* vector_store_supabase.py lines 119-149: task t's add_documents(chunks,
\* doc_id = t, filename, llm_service) up to its first await; without an
\* llm_service (lines 160-162) it runs to its end.  bad_id: uuid.UUID(doc_id)
\* raises; doc_fails: the insert of the document row returns an error
SupaStart(t, lists) ==
    /\ backend = "supabase"
    /\ tasks[t].pc = "idle"
    /\ \E cks \in lists, llm \in BOOLEAN, bad_id \in BOOLEAN,
          doc_fails \in BOOLEAN, fail \in 0..MaxFailBatch :
          LET texts == ChunkTexts(cks)
              r == StoreChunks(chunkTable, t, texts, "simple", fail)
          IN  IF bad_id \/ doc_fails
              THEN /\ tasks' = [tasks EXCEPT ![t] =
                                  Ended([@ EXCEPT !.error = IF bad_id THEN "bad_uuid"
                                                            ELSE "insert_document"],
                                        cks, "raise")]
                   /\ lastCall' = SupaCall("add", "raise", << >>, 0, << >>)
                   /\ UNCHANGED <<docTable, chunkTable>>
              ELSE /\ docTable' = Append(docTable,
                                         [id |-> t, filename |-> StoreFileName])
                   /\ IF llm /\ texts # << >>
                      THEN /\ tasks' = [tasks EXCEPT ![t].pc = "embed",
                                                     ![t].cks = cks,
                                                     ![t].llm = TRUE]
                           /\ lastCall' = SupaCall("add", "suspended", << >>, 0, << >>)
                           /\ UNCHANGED chunkTable
                      ELSE /\ tasks' = [tasks EXCEPT ![t] =
                                          Ended([@ EXCEPT !.error = r.error],
                                                cks, r.outcome)]
                           /\ lastCall' = SupaCall("add", r.outcome, << >>, 0, << >>)
                           /\ chunkTable' = r.table
    /\ UNCHANGED <<backend, storeRest, chunkVars, upVars, hashVars, chatVars>>

\* the concurrent calls' first steps
SupaBegin(t) == SupaStart(t, ConcChunks)

\* vector_store_supabase.py lines 147-191: one generate_embeddings call of task
\* t returns or raises (lines 156-159: every embedding is made again by
\* _create_simple_embedding); after the last one the rows are inserted
SupaEmbed(t) ==
    /\ backend = "supabase"
    /\ tasks[t].pc = "embed"
    /\ \E raises \in BOOLEAN, fail \in 0..MaxFailBatch :
          LET texts == ChunkTexts(tasks[t].cks)
              emb == Min(tasks[t].embedded + batch_size, Len(texts))
              r == StoreChunks(chunkTable, t, texts,
                               IF raises THEN "simple" ELSE "llm", fail)
          IN  IF ~raises /\ emb < Len(texts)
              THEN /\ tasks' = [tasks EXCEPT ![t].embedded = emb]
                   /\ lastCall' = SupaCall("add", "suspended", << >>, 0, << >>)
                   /\ UNCHANGED chunkTable
              ELSE /\ tasks' = [tasks EXCEPT ![t] =
                                  Ended([@ EXCEPT !.embedded = emb,
                                                  !.fallback = raises,
                                                  !.error = r.error],
                                        @.cks, r.outcome)]
                   /\ lastCall' = SupaCall("add", r.outcome, << >>, 0, << >>)
                   /\ chunkTable' = r.table
    /\ UNCHANGED <<backend, docTable, storeRest, chunkVars, upVars, hashVars, chatVars>>

ConcNext ==
    \/ \E t \in Tasks : FaissTaskAdd(t)
    \/ \E t \in Tasks : SupaBegin(t)
    \/ \E t \in Tasks : SupaEmbed(t)

SpecConc == ConcInit /\ [][ConcNext]_vars

(***************************************************************************)
(* Claims about concurrent and failing add_documents calls.                *)
(***************************************************************************)
\* what the store holds of the document of task t
HasDocRow(t) == \E i \in 1..Len(docTable) : docTable[i].id = t
ChunksOf(t) == SelectSeq(chunkTable, LAMBDA r : r.document_id = t)
EntriesOf(t) == SelectSeq(documents, LAMBDA d : d.metadata.doc_id = t)

HoldsNothingOf(t) ==
    ~HasDocRow(t) /\ ChunksOf(t) = << >> /\ EntriesOf(t) = << >>

HoldsAllOf(t) ==
    IF backend = "supabase"
    THEN HasDocRow(t) /\ Len(ChunksOf(t)) = Len(tasks[t].cks)
    ELSE Len(EntriesOf(t)) = Len(tasks[t].cks)

\* C4 as claimed: whenever add_documents for a document has returned or raised,
\* the store holds either all of that document's chunks or nothing of that
\* document: no document row, no chunk rows, no vectors.
C4_Atomic ==
    \A t \in Tasks :
        tasks[t].pc = "done" =>
            /\ HoldsNothingOf(t) \/ HoldsAllOf(t)
            /\ Len(index.vecs) = Len(documents)

\* what C4 claims holds of VectorStore.add_documents
C4_HoldsInFaiss ==
    backend = "faiss" => C4_Atomic

\* C10: under every interleaving of concurrent add_documents calls, no two
\* stored chunks have the same position and no position is skipped, and the
\* stored chunks of each document are in chunk_index order 0, 1, ... with their
\* own texts, all n of them once the call has returned.
C10_Serialized ==
    /\ \A i \in 1..Len(documents) : documents[i].metadata.vector_id = i - 1
    /\ \A t \in Tasks :
          LET es == EntriesOf(t)
              rs == ChunksOf(t)
              cks == tasks[t].cks
          IN  /\ Len(es) <= Len(cks) /\ Len(rs) <= Len(cks)
              /\ \A j \in 1..Len(es) :
                    /\ es[j].metadata.chunk_index = j - 1
                    /\ es[j].content = cks[j].content
              /\ \A j \in 1..Len(rs) :
                    /\ rs[j].chunk_index = j - 1
                    /\ rs[j].content = LimitText(cks[j].content)
              /\ tasks[t].outcome = "ok" =>
                    Len(cks) = IF backend = "supabase" THEN Len(rs) ELSE Len(es)

\* two Supabase calls have both returned, one of them with more rows than one
\* insert takes, and the call that inserted its document row first inserted its
\* chunk rows last: the calls ran interleaved
C10_Witness ==
    /\ backend = "supabase"
    /\ \A t \in Tasks : tasks[t].outcome = "ok"
    /\ \E t \in Tasks : Len(tasks[t].cks) > BATCH_SIZE
    /\ docTable[1].id # chunkTable[1].document_id

(***************************************************************************)
(* The hash embeddings: LLMService._create_hash_embedding and              *)
(* VectorStoreSupabase._create_simple_embedding.  A component x is kept as *)
(* the integer 255 * x, so (byte - 127.5) / 127.5 is 2 * byte - 255.       *)
(* hashlib.md5 is a library function: Md5Head stands for the first four    *)
(* bytes of its digest, a fixed function of the hashed string.             *)
(***************************************************************************)
CharCode(ch) ==
    CASE ch = "a" -> 1
      [] ch = "." -> 2
      [] ch = " " -> 3
      [] ch = "\n" -> 4
      [] OTHER -> 5

RECURSIVE Weight(_, _)
Weight(t, i) == IF i = 0 THEN 0 ELSE i * CharCode(t[i]) + Weight(t, i - 1)

\* lines 86-89 (llm_service.py), 200-202 (vector_store_supabase.py):
\* hashlib.md5(f"{text}_{i}".encode()).digest()[:4]
Md5Head(t, i) ==
    [j \in 1..4 |-> 51 * ((Weight(t, Len(t)) * j + (i + 1) * j * j + i + Len(t) + 5) % 6)]

\* line 92 (llm_service.py), 204: (byte - 127.5) / 127.5
ByteToFloat(byte) == 2 * byte - 255

\* lines 85-92, 199-204: the components appended for i = k, ..., dim // 4 - 1
RECURSIVE HashBlocks(_, _, _)
HashBlocks(t, dim, k) ==
    IF k >= dim \div 4 THEN << >>
    ELSE [j \in 1..4 |-> ByteToFloat(Md5Head(t, k)[j])] \o HashBlocks(t, dim, k + 1)

\* no padding
PadToNone(v, dim) == v

\* lines 95-96, 206-207: while len(embedding) < dim: embedding.append(0.0)
PadTo(v, dim) == v \o [i \in 1..(dim - Len(v)) |-> 0]

\* an embedding made from the length of the text alone
HashOfLength(t, dim) == [i \in 1..dim |-> 2 * 51 * (Len(t) % 6) - 255]

\* lines 78-97: _create_hash_embedding(text, dim)
CreateHashEmbedding(t, dim) == Slice(PadTo(HashBlocks(t, dim, 0), dim), 0, dim)

\* lines 194-208: _create_simple_embedding(text, dim)
CreateSimpleEmbedding(t, dim) == Slice(PadTo(HashBlocks(t, dim, 0), dim), 0, dim)

HashTexts == UNION {[1..n -> Alphabet] : n \in 0..1}

HashInit ==
    /\ ProcessorIdle
    /\ StoreIdle
    /\ UploadIdle
    /\ SupaIdle
    /\ ChatIdle
    /\ hashCalls = {}

\* a call _create_hash_embedding(t, dim) of the LLM service
HashCall ==
    /\ Cardinality(hashCalls) < MaxCalls
    /\ \E t \in HashTexts, dim \in 0..MaxDim :
          hashCalls' = hashCalls \cup
              {[fn |-> "hash", text |-> t, dim |-> dim,
                out |-> CreateHashEmbedding(t, dim)]}
    /\ UNCHANGED <<chunkVars, storeVars, upVars, supaVars, chatVars>>

\* a call _create_simple_embedding(t, dim) of the Supabase store
SimpleCall ==
    /\ Cardinality(hashCalls) < MaxCalls
    /\ \E t \in HashTexts, dim \in 0..MaxDim :
          hashCalls' = hashCalls \cup
              {[fn |-> "simple", text |-> t, dim |-> dim,
                out |-> CreateSimpleEmbedding(t, dim)]}
    /\ UNCHANGED <<chunkVars, storeVars, upVars, supaVars, chatVars>>

HashNext == HashCall \/ SimpleCall

SpecHash == HashInit /\ [][HashNext]_vars

\* C20: for every text, the empty string included, and every dim >= 0, a
\* multiple of 4 or not, the hash embedding has exactly dim components, each in
\* [-1, 1], and calls with the same text and dim return the same vector.
C20_HashEmbedding ==
    /\ \A c \in hashCalls :
          /\ Len(c.out) = c.dim
          /\ \A i \in 1..Len(c.out) : c.out[i] >= -255 /\ c.out[i] <= 255
    /\ \A c, d \in hashCalls :
          (c.text = d.text /\ c.dim = d.dim) => c.out = d.out

\* C20 witness: the empty string hashed by both functions with a dim that is
\* no multiple of 4, some component being -1 or 1 and some padding
C20_Witness ==
    \E c, d \in hashCalls :
        /\ c.fn = "hash" /\ d.fn = "simple"
        /\ c.text = << >> /\ d.text = << >>
        /\ c.dim = d.dim /\ c.dim % 4 # 0 /\ c.dim > 4
        /\ \E i \in 1..Len(c.out) : c.out[i] \in {-255, 255}

(***************************************************************************)
(* VectorStoreSupabase.search and clear.  A stored embedding is the hash   *)
(* embedding of its text: generate_embeddings returns                      *)
(* _create_hash_embedding(text) whatever the LLM answers, and the fallback *)
(* is _create_simple_embedding(text).  A row of kind "other" was written   *)
(* by another client of the table with vectors of another length.  A       *)
(* vector is kept as the smallest integer vector of its direction, and a   *)
(* similarity ip / sqrt(nn) as the pair (ip, nn).                          *)
(***************************************************************************)
Abs(x) == IF x < 0 THEN -x ELSE x

RECURSIVE AbsGcdAll(_, _)
AbsGcdAll(v, i) == IF i = 0 THEN 0 ELSE Gcd(Abs(v[i]), AbsGcdAll(v, i - 1))

\* v / np.linalg.norm(v) (lines 165-167, 243, 263): the direction of v, v
\* itself when its norm is 0
Direction(v) ==
    LET g == AbsGcdAll(v, Len(v))
    IN  IF g = 0 THEN v ELSE [i \in 1..Len(v) |-> v[i] \div g]

\* chunk["embedding"] of a row
RowVector(emb) ==
    CASE emb.kind = "llm" -> Direction(CreateHashEmbedding(emb.of, EmbeddingDim))
      [] emb.kind = "simple" -> Direction(CreateSimpleEmbedding(emb.of, EmbeddingDim))
      [] emb.kind = "other" ->
            Direction(CreateSimpleEmbedding(emb.of, EmbeddingDim + 4))
      [] OTHER -> << >>

\* lines 259-264: the similarity of the query direction q and the row vector v
Similarity(q, v) ==
    IF Dot(v, v) = 0 THEN [ip |-> 0, nn |-> 1]
    ELSE [ip |-> Dot(q, v), nn |-> Dot(q, q) * Dot(v, v)]

\* similarity a > similarity b
SimGT(a, b) ==
    IF a.ip >= 0
    THEN b.ip < 0 \/ a.ip * a.ip * b.nn > b.ip * b.ip * a.nn
    ELSE b.ip < 0 /\ a.ip * a.ip * b.nn < b.ip * b.ip * a.nn

\* a function on 1..n as the list of its values
AsList(f) == SubSeq(f, 1, Len(f))

\* lines 254-256, 264, 274-276: the row is left out of scored: its embedding is
\* empty, or np.dot raises on vectors of different lengths and the exception
\* is logged and dropped
LeftOut(q, v) == Len(v) = 0 \/ Len(v) # Len(q)

\* lines 229-239, 269: docs_map.get(document_id, "")
FileNameOf(docs, id) ==
    IF \E i \in 1..Len(docs) : docs[i].id = id
    THEN docs[CHOOSE i \in 1..Len(docs) : docs[i].id = id].filename
    ELSE << >>

\* lines 266-273: the scored entry of a row
ScoredRow(docs, q, row) ==
    [content |-> row.content,
     metadata |-> [filename |-> FileNameOf(docs, row.document_id),
                   chunk_id |-> row.chunk_index],
     similarity |-> Similarity(q, RowVector(row.embedding))]

\* lines 252-276: the scored entries of a batch of rows
ScoreBatch(docs, q, batch) ==
    LET kept == SelectSeq(batch, LAMBDA row : ~LeftOut(q, RowVector(row.embedding)))
    IN  AsList([i \in 1..Len(kept) |-> ScoredRow(docs, q, kept[i])])

\* the entries left in the order of the table
Unsorted(scored) == scored

\* sorted(scored, key = similarity, reverse = True): equal entries keep their
\* order
SortedDesc(scored) ==
    LET Before(i, j) ==
            \/ SimGT(scored[i].similarity, scored[j].similarity)
            \/ (~SimGT(scored[j].similarity, scored[i].similarity) /\ i < j)
        rank == AsList([i \in 1..Len(scored) |->
                    Cardinality({j \in 1..Len(scored) : j # i /\ Before(j, i)}) + 1])
    IN  AsList([p \in 1..Len(scored) |->
            scored[CHOOSE i \in 1..Len(scored) : rank[i] = p]])

\* a pruning that keeps the first entries held, unsorted
PrunedUnsorted(scored, top_k) ==
    IF Len(scored) > top_k * 3 THEN Slice(scored, 0, top_k * 2) ELSE scored

\* lines 279-280: keep only the best entries
Pruned(scored, top_k) ==
    IF Len(scored) > top_k * 3
    THEN Slice(SortedDesc(scored), 0, top_k * 2)
    ELSE scored

\* lines 249-280: scored after the batches of chunks from start s on
RECURSIVE ScoreFrom(_, _, _, _, _, _)
ScoreFrom(docs, q, chunks_, s, top_k, scored) ==
    IF s >= Len(chunks_) THEN scored
    ELSE ScoreFrom(docs, q, chunks_, s + ScoreBatchSize, top_k,
             Pruned(scored \o ScoreBatch(docs, q,
                                 Slice(chunks_, s, s + ScoreBatchSize)),
                    top_k))

\* lines 242-243: query_embedding
QueryVector(query) == Direction(CreateSimpleEmbedding(query, EmbeddingDim))

\* lines 210-287: search(query, top_k) on the tables; fetch_fails: the select of
\* the chunk rows returns an error
SupaSearch(docs, table, query, top_k, fetch_fails) ==
    LET fetched == Slice(table, 0, MAX_CHUNKS)
        q == QueryVector(query)
    IN  IF fetch_fails THEN [status |-> "RuntimeError", results |-> << >>]
        ELSE IF fetched = << >> THEN [status |-> "ok", results |-> << >>]
        ELSE [status |-> "ok",
              results |-> Slice(SortedDesc(ScoreFrom(docs, q, fetched, 0, top_k,
                                                     << >>)),
                                0, top_k)]

\* lines 101-106, 109-114: the delete loop of clear on one table; a delete
\* takes ClearBatchSize rows, the delete number fail returns an error
RECURSIVE DeleteRows(_, _, _)
DeleteRows(table, n, fail) ==
    IF n = fail THEN [outcome |-> "raise", table |-> table]
    ELSE IF Len(table) < ClearBatchSize
         THEN [outcome |-> "ok", table |-> << >>]
         ELSE DeleteRows(Slice(table, ClearBatchSize, Len(table)), n + 1, fail)

(***************************************************************************)
(* One store, FAISS or Supabase, that documents are added to, that is      *)
(* cleared and that is searched.                                           *)
(***************************************************************************)
\* a document of more chunks than one generate_embeddings call takes, each
\* chunk with a text of its own
LongerChunks ==
    [i \in 1..(batch_size + 1) |-> MakeChunk(Rep("a", i), StoreFileName, i - 1, i - 1, i)]

\* the chunk lists given to add_documents: those of a blank, a one-chunk and a
\* two-chunk document, and LongerChunks
SmallChunks ==
    {CreateChunks(txt, StoreFileName, UploadChunkSize, UploadOverlap) :
        txt \in StoreTexts} \cup {LongerChunks}

\* the rows another client left in the tables: a document of one chunk whose
\* embedding has another length than this store's
OtherDoc == [id |-> 0, filename |-> <<"o", ".", "t", "x", "t">>]
OtherRow == [document_id |-> 0, chunk_index |-> 0, content |-> <<"a">>,
             embedding |-> [kind |-> "other", of |-> <<"a">>]]

SupaQueries == {<<"a">>, <<".">>, <<"a", "a">>}

StoresInit ==
    /\ HashIdle
    /\ ChatIdle
    /\ ProcessorIdle
    /\ UploadIdle
    /\ backend \in {"faiss", "supabase"}
    /\ \/ docTable = << >> /\ chunkTable = << >>
       \/ backend = "supabase" /\ docTable = <<OtherDoc>> /\ chunkTable = <<OtherRow>>
    /\ tasks = [t \in Tasks |-> IdleTask]
    /\ dimension \in Dimensions
    /\ index = EmptyIndex(dimension)
    /\ documents = << >>
    /\ embeddings = << >>
    /\ \/ faissFile = NoFaiss /\ pklFile = NoPkl
       \/ /\ backend = "faiss"
          /\ \E d \in Dimensions :
                faissFile = SavedBefore(d).faiss /\ pklFile = SavedBefore(d).pkl
    /\ lastCall = [op |-> "none", outcome |-> "ok", results |-> << >>,
                   top_k |-> 0, vectors |-> 0, disk |-> "missing"]
    /\ retired = {}
    /\ nadds = 0

\* the task that calls the Supabase store, one call after the other
Caller == CHOOSE t \in Tasks : TRUE

StoreFaissAdd == backend = "faiss" /\ FaissAdd
StoreFaissClear == backend = "faiss" /\ FaissClear
StoreFaissSearch == backend = "faiss" /\ FaissSearch
StoreFaissSave == backend = "faiss" /\ FaissSave
StoreFaissLoad == backend = "faiss" /\ FaissLoad

\* vector_store_supabase.py lines 119-149: add_documents up to its first await
StoreSupaBegin(t) == SupaStart(t, SmallChunks)

\* vector_store_supabase.py lines 93-117: clear(); fail: the table whose delete
\* returns an error
StoreSupaClear ==
    /\ backend = "supabase"
    /\ \E fail \in {"none", "chunks", "documents"} :
          LET c == DeleteRows(chunkTable, 1, IF fail = "chunks" THEN 1 ELSE 0)
              d == DeleteRows(docTable, 1, IF fail = "documents" THEN 1 ELSE 0)
          IN  /\ chunkTable' = c.table
              /\ docTable' = IF c.outcome = "ok" THEN d.table ELSE docTable
              /\ lastCall' = SupaCall("clear",
                                 IF c.outcome = "ok" THEN d.outcome ELSE "raise",
                                 << >>, 0, << >>)
    /\ UNCHANGED <<backend, tasks, storeRest, chunkVars, upVars, hashVars, chatVars>>

\* vector_store_supabase.py lines 210-287: search(query, top_k)
StoreSupaSearch ==
    /\ backend = "supabase"
    /\ \E q \in SupaQueries, k \in TopKs, fetch_fails \in BOOLEAN :
          \E r \in {SupaSearch(docTable, chunkTable, q, k, fetch_fails)} :
              lastCall' = SupaCall("search", r.status, r.results, k, q)
    /\ UNCHANGED <<supaVars, storeRest, chunkVars, upVars, hashVars, chatVars>>

StoresNext ==
    \/ StoreFaissAdd
    \/ StoreFaissClear
    \/ StoreFaissSearch
    \/ StoreFaissSave
    \/ StoreFaissLoad
    \/ StoreSupaBegin(Caller)
    \/ SupaEmbed(Caller)
    \/ StoreSupaClear
    \/ StoreSupaSearch

SpecStores == StoresInit /\ [][StoresNext]_vars

(***************************************************************************)
(* Claims about adding to, clearing and searching one store.               *)
(***************************************************************************)
\* the rows add_documents is to store for the chunk list cks of document t
ExpectedRows(t, cks) == ChunkRows(t, ChunkTexts(cks), "simple")

\* search(row's text, k) returns the row first
FoundFirst(row, k) ==
    LET r == SupaSearch(docTable, chunkTable, row.content, k, FALSE)
    IN  /\ r.status = "ok"
        /\ r.results # << >>
        /\ r.results[1].content = row.content
        /\ r.results[1].metadata.chunk_id = row.chunk_index
        /\ r.results[1].metadata.filename = FileNameOf(docTable, row.document_id)

\* C11 as claimed: when generate_embeddings raises for a sub-batch of a
\* document, add_documents of the Supabase store goes on with the hash
\* fallback: it ends without error unless an insert fails, it has then stored
\* one row per chunk in the order of the chunks, and as long as the rows are
\* stored a search for the text of one of them, top_k >= 1, returns that row
\* first.
C11_FallbackIngests ==
    \A t \in Tasks :
        (backend = "supabase" /\ tasks[t].pc = "done" /\ tasks[t].fallback) =>
            /\ tasks[t].outcome = "ok" \/ tasks[t].error = "insert_chunks"
            /\ (tasks[t].outcome = "ok" /\ lastCall.op = "add") =>
                  ChunksOf(t) = ExpectedRows(t, tasks[t].cks)
            /\ (tasks[t].outcome = "ok" /\ ChunksOf(t) # << >>) =>
                  /\ ChunksOf(t) = ExpectedRows(t, tasks[t].cks)
                  /\ \A j \in 1..Len(ChunksOf(t)), k \in TopKs \ {0} :
                        FoundFirst(ChunksOf(t)[j], k)

\* what C11 claims holds of a table of at most MAX_CHUNKS rows
C11_HoldsUpToMaxChunks ==
    Len(chunkTable) <= MAX_CHUNKS => C11_FallbackIngests

\* the similarity or score of a result
ResultScore(r) == IF backend = "supabase" THEN r.similarity ELSE r.score

\* C12 as claimed: every result a search returns has a similarity strictly
\* above the threshold 0.1, in both stores.
C12_AboveThreshold ==
    (lastCall.op = "search" /\ lastCall.outcome = "ok") =>
        \A i \in 1..Len(lastCall.results) :
            AboveThreshold(ResultScore(lastCall.results[i]))

\* what C12 claims holds of VectorStore.search
C12_HoldsInFaiss ==
    backend = "faiss" => C12_AboveThreshold

\* a stored vector has another number of components than the query vector
Mismatched(row) == Len(RowVector(row.embedding)) # EmbeddingDim

\* C13 as claimed: a search that meets a stored vector of another length than
\* the query vector ends with an error; it returns no result list.
C13_MismatchReported ==
    (/\ backend = "supabase"
     /\ lastCall.op = "search"
     /\ \E i \in 1..Len(chunkTable) : Mismatched(chunkTable[i]))
    => lastCall.outcome # "ok"

\* every search of the empty store returns the empty sequence
EmptySearches ==
    IF backend = "supabase"
    THEN \A q \in SupaQueries, k \in TopKs :
            SupaSearch(docTable, chunkTable, q, k, FALSE)
                = [status |-> "ok", results |-> << >>]
    ELSE \A q \in Queries, k \in TopKs :
            Search(StoreRec, q, k) = [status |-> "ok", results |-> << >>]

\* C16: after clear(), whatever was indexed before, and in a store just
\* created, the store's size is 0, a FAISS index has the dimension the store
\* was created with, and until the next add every search, for any query and
\* any top_k, returns the empty sequence without error.
C16_ClearEmpties ==
    /\ (backend = "faiss" /\ lastCall.op \in {"none", "clear"}) =>
          /\ Len(index.vecs) = 0 /\ documents = << >> /\ embeddings = << >>
          /\ index.d = dimension
          /\ EmptySearches
    /\ (backend = "supabase" /\ lastCall.op = "clear" /\ lastCall.outcome = "ok") =>
          /\ chunkTable = << >> /\ docTable = << >>
          /\ EmptySearches
    /\ (lastCall.op = "search" /\ lastCall.vectors = 0) =>
          /\ lastCall.results = << >>
          /\ lastCall.outcome \in {"ok", "RuntimeError"}
          /\ backend = "faiss" => lastCall.outcome = "ok"

\* C16 witness: chunks were stored, the store was cleared, and a search with
\* top_k >= 1 was made of the cleared FAISS store
C16_Witness ==
    /\ backend = "faiss"
    /\ retired # {}
    /\ lastCall.op = "search" /\ lastCall.vectors = 0 /\ lastCall.top_k >= 1
    /\ lastCall.outcome = "ok"

RoundTrip(st) ==
    LET saved == SaveFiles(st, faissFile, pklFile, "none")
    IN  LoadIndex(NewStore(st.dimension), saved.faiss, saved.pkl)

ApiTopK == 5
\* app.py line 52: top_k of chat_with_docs
GradioTopK == 3

\* main.py line 192
ApiSentinel ==
    "I couldn't find relevant information in the uploaded documents to answer your question."
\* app.py line 55
GradioSentinel == "I couldn't find relevant information in the uploaded documents."

\* what llm_service.generate_response streams: an answer, or its own error
\* message (llm_service.py lines 139-142)
LlmAnswers == {"answer", "Error generating response"}

\* the messages of the chat requests
Messages == Queries \cup {<<" ">>}

\* the session ids a request may carry; 0 stands for none
ProvidedIds == {1}

\* main.py line 163, str(uuid.uuid4()): an id no session has
FreshId ==
    LET used == DOMAIN sessions \cup ProvidedIds
    IN  (CHOOSE m \in used : \A n \in used : n <= m) + 1

\* "\n\n".join(doc["content"] for doc in docs), the separator as one character
RECURSIVE JoinContents(_)
JoinContents(docs) ==
    IF docs = << >> THEN << >>
    ELSE IF Len(docs) = 1 THEN docs[1].content
         ELSE docs[1].content \o <<"\n">> \o JoinContents(Tail(docs))

\* main.py lines 195-201: sources
SourcesOf(docs) ==
    [i \in 1..Len(docs) |-> [filename |-> docs[i].metadata.filename,
                             chunk_id |-> docs[i].metadata.chunk_id]]

\* a chat call and how it ended
ChatCall(op, outcome, results, top_k, message) ==
    [op |-> op, outcome |-> outcome, results |-> results, top_k |-> top_k,
     vectors |-> Len(index.vecs), disk |-> "missing", query |-> message]

ChatInit ==
    /\ HashIdle
    /\ ChatIdle
    /\ SupaIdle
    /\ ProcessorIdle
    /\ handler \in {"fastapi", "gradio"}
    /\ reqs = [r \in Requests |-> IdleRequest]
    /\ dimension \in Dimensions
    /\ index = EmptyIndex(dimension)
    /\ documents = << >>
    /\ embeddings = << >>
    /\ faissFile = NoFaiss
    /\ pklFile = NoPkl
    /\ lastCall = [op |-> "none", outcome |-> "ok", results |-> << >>,
                   top_k |-> 0, vectors |-> 0, disk |-> "missing"]
    /\ retired = {}
    /\ nadds = 0

\* main.py lines 159-226: chat_endpoint up to its return.  The search's
\* exception becomes HTTPException(500); otherwise a StreamingResponse over
\* generate_response() is returned
ApiChat ==
    /\ handler = "fastapi"
    /\ nchats < MaxChats
    /\ \E message \in Messages, given \in {0} \cup ProvidedIds :
          LET session_id == IF given = 0 THEN FreshId ELSE given
              r == Search(StoreRec, message, ApiTopK)
          IN  /\ sessions' = IF session_id \in DOMAIN sessions THEN sessions
                             ELSE [id \in DOMAIN sessions \cup {session_id} |->
                                      IF id = session_id THEN << >>
                                      ELSE sessions[id]]
              /\ IF r.status = "ok"
                 THEN /\ streams' = streams \cup
                            {[n |-> nchats + 1, session_id |-> session_id,
                              message |-> message, relevant_docs |-> r.results]}
                      /\ lastCall' = ChatCall("chat", "streaming", r.results,
                                              ApiTopK, message)
                 ELSE /\ lastCall' = ChatCall("chat", "error", << >>, ApiTopK, message)
                      /\ UNCHANGED streams
    /\ nchats' = nchats + 1
    /\ UNCHANGED <<storeRest, history, chunkVars, upVars, supaVars, hashVars>>

\* main.py lines 183-216: generate_response() of a returned StreamingResponse
\* runs to its end
ApiStream ==
    /\ handler = "fastapi"
    /\ \E s \in streams, answer \in LlmAnswers :
          LET context == JoinContents(s.relevant_docs)
              found == Strip(context) # << >>
              response_text == IF found THEN answer ELSE ApiSentinel
              sources == IF found THEN SourcesOf(s.relevant_docs) ELSE << >>
          IN  /\ sessions' = [sessions EXCEPT ![s.session_id] = @ \o
                    <<[role |-> "user", content |-> s.message,
                       response |-> "", sources |-> << >>],
                      [role |-> "assistant", content |-> << >>,
                       response |-> response_text, sources |-> sources]>>]
              /\ streams' = streams \ {s}
              /\ lastCall' = ChatCall("stream",
                                      IF found THEN "answer" ELSE "sentinel",
                                      s.relevant_docs, ApiTopK, s.message)
    /\ UNCHANGED <<storeRest, history, nchats, chunkVars, upVars, supaVars, hashVars>>

\* app.py lines 45-69: chat_with_docs(message, history)
GrChat ==
    /\ handler = "gradio"
    /\ nchats < MaxChats
    /\ \E message \in Messages, answer \in LlmAnswers :
          LET r == Search(StoreRec, message, GradioTopK)
              outcome == IF r.status # "ok" THEN "error"
                         ELSE IF r.results = << >> THEN "sentinel" ELSE "answer"
              response == CASE outcome = "error" -> "Error: " \o r.status
                            [] outcome = "sentinel" -> GradioSentinel
                            [] OTHER -> answer
          IN  IF Strip(message) = << >>
              THEN /\ lastCall' = ChatCall("chat", "ignored", << >>, GradioTopK, message)
                   /\ UNCHANGED history
              ELSE /\ history' = Append(history, [message |-> message,
                                                  response |-> response])
                   /\ lastCall' = ChatCall("chat", outcome, r.results,
                                           GradioTopK, message)
    /\ nchats' = nchats + 1
    /\ UNCHANGED <<storeRest, sessions, streams, chunkVars, upVars, supaVars, hashVars>>

ChatNext ==
    \/ FaissAdd
    \/ FaissClear
    \/ ApiChat
    \/ ApiStream
    \/ GrChat

SpecChat == ChatInit /\ [][ChatNext]_vars

(***************************************************************************)
(* Claims about the chat handlers.                                         *)
(***************************************************************************)
\* no stored chunk has a score above the threshold for the query q
NonePasses(q) ==
    \A i \in 1..Len(index.vecs) :
        ~AboveThreshold(ScoreOf(Normalize(Encode(q, dimension)), index.vecs[i]))

\* the last call was a chat query, which chat_with_docs takes a message of
\* whitespace not to be
ChatQuery ==
    /\ lastCall.op = "chat"
    /\ handler = "gradio" => Strip(lastCall.query) # << >>

\* the handler answered the query with the sentinel
SentinelAnswer ==
    IF handler = "gradio"
    THEN /\ lastCall.outcome = "sentinel"
         /\ history # << >>
         /\ history[Len(history)] = [message |-> lastCall.query,
                                     response |-> GradioSentinel]
    ELSE /\ lastCall.outcome = "streaming"
         /\ \E s \in streams : s.n = nchats /\ s.relevant_docs = << >>

\* C19 as claimed: a chat query against an index that is empty, or in which no
\* stored chunk passes the similarity threshold, is answered with the sentinel
\* and not with an error response, by chat_endpoint and by chat_with_docs.
C19_SentinelNotError ==
    /\ (ChatQuery /\ NonePasses(lastCall.query)) => SentinelAnswer
    /\ (lastCall.op = "stream" /\ lastCall.results = << >>) =>
          /\ lastCall.outcome = "sentinel"
          /\ \E id \in DOMAIN sessions :
                LET msgs == sessions[id]
                IN  /\ Len(msgs) >= 2
                    /\ msgs[Len(msgs) - 1].content = lastCall.query
                    /\ msgs[Len(msgs)].response = ApiSentinel
                    /\ msgs[Len(msgs)].sources = << >>

\* what C19 claims holds of the empty index
C19_HoldsOnEmpty ==
    lastCall.vectors = 0 => C19_SentinelNotError

(***************************************************************************)
(* Claims about the positions _create_chunks records.                      *)
(***************************************************************************)
\* the content of chunk c is its span of the text, stripped
ContentOfSpan(c) ==
    c.content = Strip(Slice(text, c.metadata.start_pos, c.metadata.end_pos))

\* C27 as claimed: every chunk's start_pos and end_pos are offsets into the
\* text, 0 <= start_pos < end_pos <= len(text), and its content is
\* text[start_pos:end_pos] stripped.
C27_OffsetsInText ==
    \A i \in 1..Len(chunks) :
        /\ 0 <= chunks[i].metadata.start_pos
        /\ chunks[i].metadata.start_pos < chunks[i].metadata.end_pos
        /\ chunks[i].metadata.end_pos <= Len(text)
        /\ ContentOfSpan(chunks[i])

\* what C27 claims, but for the upper bound of end_pos, which is
\* start_pos + chunk_size at most
C27_HoldsButForEnd ==
    \A i \in 1..Len(chunks) :
        /\ 0 <= chunks[i].metadata.start_pos
        /\ chunks[i].metadata.start_pos < chunks[i].metadata.end_pos
        /\ chunks[i].metadata.start_pos < Len(text)
        /\ chunks[i].metadata.end_pos
              <= chunks[i].metadata.start_pos + chunk_size
        /\ ContentOfSpan(chunks[i])

\* C28 as claimed: with chunk_size > chunk_overlap >= 0, start_pos and end_pos
\* both strictly increase from each chunk to the next, and no chunk has more
\* than chunk_size characters.
C28_ForwardProgress ==
    chunk_size > chunk_overlap =>
        /\ \A i \in 1..(Len(chunks) - 1) :
              /\ chunks[i].metadata.start_pos < chunks[i + 1].metadata.start_pos
              /\ chunks[i].metadata.end_pos < chunks[i + 1].metadata.end_pos
        /\ \A i \in 1..Len(chunks) : Len(chunks[i].content) <= chunk_size

\* what C28 claims of start_pos and of the chunks' lengths
C28_HoldsOfStart ==
    /\ \A i \in 1..(Len(chunks) - 1) :
          chunks[i].metadata.start_pos < chunks[i + 1].metadata.start_pos
    /\ \A i \in 1..Len(chunks) : Len(chunks[i].content) <= chunk_size

(***************************************************************************)
(* Claims about the three collections of a VectorStore.                    *)
(***************************************************************************)
\* lines 135-142: get_status
GetStatus ==
    [total_documents  |-> Len(index.vecs),
     metadata_count   |-> Len(documents),
     embeddings_count |-> Len(embeddings),
     dimension        |-> dimension]

\* C26 as claimed: after any calls of add_documents, clear, save_index and
\* load_index, those that raise included, the index, the document entries and
\* the stored embeddings have the same number of elements, and the entry at
\* position i has vector_id i.
C26_CountsAgree ==
    /\ GetStatus.total_documents = GetStatus.metadata_count
    /\ GetStatus.metadata_count = GetStatus.embeddings_count
    /\ \A i \in 1..Len(documents) : documents[i].metadata.vector_id = i - 1

(***************************************************************************)
(* Claims about the vectors of the Supabase store.                         *)
(***************************************************************************)
\* the embedding kind add_documents stores for task t
KindOf(t) == IF tasks[t].llm /\ ~tasks[t].fallback THEN "llm" ELSE "simple"

\* C21: whichever way add_documents made the embeddings (generate_embeddings
\* returned, generate_embeddings raised and the fallback ran, or no
\* llm_service was passed), the vector stored for a chunk text is the vector
\* search computes for that text as a query, with the same number of
\* components.
C21_SameSpace ==
    \A t \in Tasks :
        (backend = "supabase" /\ tasks[t].pc = "done" /\ tasks[t].outcome = "ok") =>
            \A j \in 1..Len(ChunksOf(t)) :
                LET row == ChunksOf(t)[j]
                IN  /\ row.embedding = [kind |-> KindOf(t), of |-> row.content]
                    /\ Len(RowVector(row.embedding)) = EmbeddingDim
                    /\ RowVector(row.embedding) = QueryVector(row.content)

\* C21 witness: generate_embeddings returned for every sub-batch of a document
\* of several sub-batches, and a search for the text of one of its chunks has
\* returned the chunk with similarity 1
C21_Witness ==
    /\ backend = "supabase"
    /\ \E t \in Tasks :
          /\ tasks[t].pc = "done" /\ tasks[t].outcome = "ok"
          /\ KindOf(t) = "llm"
          /\ Len(tasks[t].cks) > batch_size
          /\ Len(ChunksOf(t)) = Len(tasks[t].cks)
    /\ lastCall.op = "search" /\ lastCall.outcome = "ok"
    /\ lastCall.results # << >>
    /\ lastCall.results[1].content = lastCall.query
    /\ lastCall.results[1].similarity.ip > 0
    /\ lastCall.results[1].similarity.ip * lastCall.results[1].similarity.ip
          = lastCall.results[1].similarity.nn

(***************************************************************************)
(* VectorStoreSupabase.search on tables of more rows than one scoring      *)
(* batch: the rows' texts repeat a pattern, so that rows have equal        *)
(* similarities.                                                           *)
(***************************************************************************)
\* the texts of the rows
RowTexts == {<<"a">>, <<".">>, <<"a", "a">>}

\* the patterns the rows' texts repeat
Patterns == UNION {[1..n -> RowTexts] : n \in 1..MaxPattern}

\* the numbers of rows: none, a few, one scoring batch and one more
RowCounts == (0..MaxRows) \cup {ScoreBatchSize + 1}

\* the chunk rows of a document of n chunks whose texts repeat pattern pat up
\* to the last, whose text is last, as add_documents stores them
PatternRows(n, pat, last) ==
    ChunkRows(0, [i \in 1..n |-> IF i = n THEN last
                                 ELSE pat[((i - 1) % Len(pat)) + 1]], "simple")

RankInit ==
    /\ HashIdle
    /\ ChatIdle
    /\ ProcessorIdle
    /\ StoreIdle
    /\ UploadIdle
    /\ backend = "supabase"
    /\ docTable = <<OtherDoc>>
    /\ \E n \in RowCounts, pat \in Patterns, last \in RowTexts :
          chunkTable = PatternRows(n, pat, last)
    /\ tasks = [t \in Tasks |-> IdleTask]

RankNext == StoreSupaSearch

SpecRank == RankInit /\ [][RankNext]_vars

\* the scored entries of all fetched rows, in the order of the table
AllScored(query) ==
    ScoreBatch(docTable, QueryVector(query), Slice(chunkTable, 0, MAX_CHUNKS))

\* the entry of scored that a stable descending sort puts first: the earliest
\* of those of the greatest similarity
FirstOf(scored) ==
    CHOOSE i \in 1..Len(scored) :
        \A j \in 1..Len(scored) :
            IF j < i THEN SimGT(scored[i].similarity, scored[j].similarity)
            ELSE ~SimGT(scored[j].similarity, scored[i].similarity)

\* the first k entries of a stable descending sort of scored, by selection
RECURSIVE FirstSorted(_, _)
FirstSorted(scored, k) ==
    IF k <= 0 \/ scored = << >> THEN << >>
    ELSE LET i == FirstOf(scored)
         IN  <<scored[i]>> \o
             FirstSorted(SubSeq(scored, 1, i - 1) \o
                         SubSeq(scored, i + 1, Len(scored)), k - 1)

\* C24: for every top_k >= 0, search returns the first top_k entries of one
\* stable descending sort by similarity of the scored entries of all fetched
\* rows: the pruning between the batches changes neither the entries returned
\* nor their order, and entries of equal similarity stay in insertion order.
C24_OneStableSort ==
    (backend = "supabase" /\ lastCall.op = "search" /\ lastCall.outcome = "ok") =>
        lastCall.results = FirstSorted(AllScored(lastCall.query), lastCall.top_k)

\* C24 witness: a search of more rows than one scoring batch, pruned after
\* the first batch, has returned the last row first and then entries of equal
\* similarity in the order of their insertion
C24_Witness ==
    /\ lastCall.op = "search" /\ lastCall.outcome = "ok"
    /\ Len(chunkTable) > ScoreBatchSize
    /\ ScoreBatchSize > 3 * lastCall.top_k
    /\ Len(lastCall.results) >= 3
    /\ lastCall.results[1].metadata.chunk_id = Len(chunkTable) - 1
    /\ SimGT(lastCall.results[1].similarity, lastCall.results[2].similarity)
    /\ lastCall.results[2].similarity = lastCall.results[3].similarity
    /\ lastCall.results[2].metadata.chunk_id < lastCall.results[3].metadata.chunk_id

(***************************************************************************)
(* VectorStoreSupabase on a chunks table that earlier uploads have filled  *)
(* up to the number of rows one search fetches.                            *)
(***************************************************************************)
\* line 210: the default top_k of search
DefaultTopK == 5

\* the rows of an earlier document of MAX_CHUNKS chunks
FullRows == PatternRows(MAX_CHUNKS, <<<<".">>>>, <<".">>)

\* the chunk list of the document added next: one chunk
NextChunks == {CreateChunks(<<"a">>, StoreFileName, UploadChunkSize, UploadOverlap)}

FullQueries == {<<"a">>, <<".">>}

FullInit ==
    /\ HashIdle
    /\ ChatIdle
    /\ ProcessorIdle
    /\ StoreIdle
    /\ UploadIdle
    /\ backend = "supabase"
    /\ docTable = <<OtherDoc>>
    /\ chunkTable \in {<< >>, <<OtherRow>>, FullRows}
    /\ tasks = [t \in Tasks |-> IdleTask]

\* add_documents of the next document up to its first await
FullBegin(t) == SupaStart(t, NextChunks)

\* search(query) with the default top_k
FullSearch ==
    /\ backend = "supabase"
    /\ \E q \in FullQueries, fetch_fails \in BOOLEAN :
          \E r \in {SupaSearch(docTable, chunkTable, q, DefaultTopK, fetch_fails)} :
              lastCall' = SupaCall("search", r.status, r.results, DefaultTopK, q)
    /\ UNCHANGED <<supaVars, storeRest, chunkVars, upVars, hashVars, chatVars>>

FullNext ==
    \/ FullBegin(Caller)
    \/ SupaEmbed(Caller)
    \/ FullSearch

SpecFull == FullInit /\ [][FullNext]_vars

\* the scored entries of all stored rows, in the order of the table
WholeScored(query) == ScoreBatch(docTable, QueryVector(query), chunkTable)

\* C22 as claimed: whatever the number of stored chunks, the entries search
\* returns are the top_k entries of greatest similarity of all stored chunks.
C22_RanksWholeSet ==
    (backend = "supabase" /\ lastCall.op = "search" /\ lastCall.outcome = "ok") =>
        lastCall.results = FirstSorted(WholeScored(lastCall.query), lastCall.top_k)

\* what C22 claims holds of a table of at most MAX_CHUNKS rows
C22_HoldsUpToMaxChunks ==
    Len(chunkTable) <= MAX_CHUNKS => C22_RanksWholeSet

(***************************************************************************)
(* Claims about add_documents and clear of the Supabase store interleaved. *)
(***************************************************************************)
\* the ids of the rows of table "documents"
DocIds == {docTable[i].id : i \in 1..Len(docTable)}

\* C25 as claimed: in every state that add_documents, suspended at its
\* embedding await, and clear reach together, the document_id of every chunk
\* row is the id of a document row.
C25_ChunksHaveDocument ==
    backend = "supabase" =>
        \A i \in 1..Len(chunkTable) : chunkTable[i].document_id \in DocIds

(***************************************************************************)
(* Claims about upload requests that clear the store and run together.     *)
(***************************************************************************)
\* the chunks of the files files[j..], each with its file's name, in the order
\* the upload loop adds them
RECURSIVE ChunksOfFiles(_, _)
ChunksOfFiles(files, j) ==
    IF j > Len(files) THEN << >>
    ELSE LET cks == ProcessDocument(files[j], UploadChunkSize, UploadOverlap).chunks
         IN  AsList([i \in 1..Len(cks) |-> <<files[j].filename, cks[i].content>>])
                 \o ChunksOfFiles(files, j + 1)

\* what the index holds: the name and content of each stored chunk
Stored ==
    AsList([i \in 1..Len(documents) |->
                <<documents[i].metadata.filename, documents[i].content>>])

\* the answer req of an upload that cleared the store and indexed every file
Succeeded(req) ==
    /\ req.pc = "done"
    /\ req.clear_existing
    /\ req.response.status \in {"200", "text"}
    /\ Len(req.response.documents) = Len(req.files)
    /\ \A j \in 1..Len(req.files) : req.response.documents[j].ok

\* C23 as claimed: in the step in which an upload request with clear_existing
\* ends successfully, the index comes to hold exactly the chunks of that
\* request's files, one vector each, whatever another upload request did
\* between this request's awaits.
C23_ReplacesContent ==
    [][\A r \in Requests :
          (reqs[r].pc # "done" /\ Succeeded(reqs'[r])) =>
              /\ Stored' = ChunksOfFiles(reqs'[r].files, 1)
              /\ Len(index'.vecs) = Len(documents')]_vars

\* what C23 claims holds of an upload that ends while no other request has
\* started
C23_HoldsAlone ==
    [][\A r \in Requests :
          (/\ reqs[r].pc # "done" /\ Succeeded(reqs'[r])
           /\ \A o \in Requests \ {r} : reqs[o].pc = "idle") =>
              /\ Stored' = ChunksOfFiles(reqs'[r].files, 1)
              /\ Len(index'.vecs) = Len(documents')]_vars

\* an upload that cleared the store ended successfully while no other request
\* had started
C23_AloneHappens ==
    \E r \in Requests :
        /\ Succeeded(reqs[r])
        /\ \A o \in Requests \ {r} : reqs[o].pc = "idle"
        /\ Len(documents) >= 2

=============================================================================
